---------------------------- MODULE Spec2Model ----------------------------
(***************************************************************************)
(* A model of the NES 6502 emulator core: the Bus (bus.rs), the opcode     *)
(* table (opcodes.rs) and the CPU with its fetch-decode-execute loop       *)
(* (cpu.rs).                                                               *)
(*                                                                         *)
(* Bytes are 0..255 and words 0..65535.  A panic of the Rust program is    *)
(* the variable fault leaving "none"; a panicked process takes no further  *)
(* step.  Arithmetic written with + or += in the source overflows          *)
(* according to the build profile (overflow_checks): a panic in a debug    *)
(* build, a wrap in a release build.                                       *)
(***************************************************************************)
EXTENDS Integers, Sequences, FiniteSets, TLC

VARIABLES
    stack_ptr,          \* CPU.stack_ptr: u8
    accumulator,        \* CPU.accumulator: u8
    register_x,         \* CPU.register_x: u8
    register_y,         \* CPU.register_y: u8
    status,             \* CPU.status: CPUFlags (its bits)
    program_counter,    \* CPU.program_counter: u16
    ram,                \* Bus.ram: [u8; 2048]
    rom,                \* Bus.rom: the cartridge (its prg banks and bytes)
    overflow_checks,    \* build profile: TRUE = debug (overflow panics)
    fault,              \* "none", or the panic that ended the process
    phase,              \* "idle", or "running" inside run_with_callback
    entry_pc,           \* program_counter when run_with_callback was entered
    last,               \* the last operation performed: [op, addr, data]
    log,                \* every bus write attempted so far: <<addr, data>>
    calls,              \* calls made on the CPU so far (bounded)
    steps,              \* loop iterations of the current run (bounded)
    observed            \* the callback of the current run: the number of its
                        \* invocations and the registers the last one saw

vars == <<stack_ptr, accumulator, register_x, register_y, status,
          program_counter, ram, rom, overflow_checks, fault, phase,
          entry_pc, last, log, calls, steps, observed>>

-----------------------------------------------------------------------------
(* Bounds of the model *)

MaxCalls == 2
MaxSteps == 4

-----------------------------------------------------------------------------
(* Bytes, words and bit operations *)

Pow2(k) == 2^k

BitOf(v, k) == (v \div Pow2(k)) % 2

\* bitwise AND / OR / XOR on 16-bit values
RECURSIVE AndFrom(_, _, _)
AndFrom(a, b, k) ==
    IF k = 16 THEN 0
    ELSE (BitOf(a, k) * BitOf(b, k)) * Pow2(k) + AndFrom(a, b, k + 1)

BitAnd(a, b) == AndFrom(a, b, 0)

BitOr(a, b) == a + b - BitAnd(a, b)

BitXor(a, b) == a + b - 2 * BitAnd(a, b)

\* u8 << 1 and u8 >> 1
Shl8(v) == (v * 2) % 256
Shr8(v) == v \div 2

wrapping_add8(a, b) == (a + b) % 256
wrapping_sub8(a, b) == (a - b + 256) % 256
wrapping_add16(a, b) == (a + b) % 65536

\* `x as i8 as u16`: sign extension of a byte to 16 bits
SignExtend(b) == IF b >= 128 THEN b + 65280 ELSE b

\* a + b on u16 overflows: panic (debug) or wrap (release)
Overflows16(a, b) == a + b > 65535
Overflows8(a, b) == a + b > 255

-----------------------------------------------------------------------------
(* cpu.rs constants *)

PRG_REF == \hFFFC
PRG_START == \h8000
STACK_START == \hFD
STACK_END == \h0100

(* CPUFlags *)
CARRY == \b00000001
ZERO == \b00000010
INT == \b00000100
DEC == \b00001000
BRK == \b00010000
BRK2 == \b00100000
OVER == \b01000000
NEG == \b10000000

contains(st, f) == BitAnd(st, f) = f
insert(st, f) == BitOr(st, f)
remove(st, f) == st - BitAnd(st, f)
set(st, f, c) == IF c THEN insert(st, f) ELSE remove(st, f)

(* bus.rs constants *)
CPU_START == \h0000
CPU_END == \h1FFF
PPU_START == \h2000
PPU_END == \h3FFF
ROM_START == \h8000
ROM_END == \hFFFF

(* rom.rs *)
NES_TAG == <<\h4E, \h45, \h53, \h1A>>
PRG_PAGE_SIZE == 16384
CHR_PAGE_SIZE == 8192

-----------------------------------------------------------------------------
(* The cartridge.  Rom.prg is a Vec<u8> of banks * PRG_PAGE_SIZE bytes; it   *)
(* is described by its bank count and by the bytes that differ from a        *)
(* background pattern (patch: offset -> byte).                               *)

\* background byte of offset i; differs between i and i + 0x4000
FillByte(i) == (i + (i \div 256)) % 256

prg_len(r) == r.banks * PRG_PAGE_SIZE

\* prg[i]; an index outside the vector is a Rust panic (see read_panics)
prg_at(r, i) ==
    IF i \in DOMAIN r.patch THEN r.patch[i] ELSE FillByte(i)

\* offset in prg that address 0xFFFC reads
VectorOffset(banks) == IF banks = 1 THEN \h3FFC ELSE \h7FFC

\* the bytes `code` placed from offset `at` on
Bytes(at, code) == [i \in at..(at + Len(code) - 1) |-> code[i - at + 1]]

\* a cartridge of `banks` banks holding `code` at 0x8000, the bytes `extra`
\* (offset -> byte) and the reset vector `vec` at 0xFFFC
ImageWith(banks, vec, code, extra) ==
    LET vo == VectorOffset(banks)
    IN  [banks |-> banks,
         patch |-> Bytes(0, code) @@ extra
                   @@ Bytes(vo, <<vec % 256, vec \div 256>>)]

Image(banks, vec, code) == ImageWith(banks, vec, code, <<>>)

\* a cartridge without program banks (header byte 4 = 0)
EmptyImage == [banks |-> 0, patch |-> <<>>]

-----------------------------------------------------------------------------
(* Bus (bus.rs).  s is the whole machine: the CPU registers, the Bus and    *)
(* the panic state.                                                          *)

Panic(s, why) == [s EXCEPT !.fault = why]

\* read_prg_rom without the mirroring of a single bank
prg_index_unmirrored(r, addr) == addr - \h8000

\* Bus::read_prg_rom: the index into prg
prg_index(r, addr) ==
    IF prg_len(r) = \h4000 /\ addr - \h8000 >= \h4000
      THEN (addr - \h8000) % \h4000
      ELSE addr - \h8000

read_prg_rom(r, addr) == prg_at(r, prg_index(r, addr))

\* the read indexes prg out of bounds
read_panics(s, addr) ==
    /\ addr >= ROM_START /\ addr <= ROM_END
    /\ prg_index(s.rom, addr) >= prg_len(s.rom)

\* Bus::mem_read
mem_read(s, addr) ==
    IF addr >= CPU_START /\ addr <= CPU_END
      THEN s.ram[BitAnd(addr, \b011111111111)]
    ELSE IF addr >= PPU_START /\ addr <= PPU_END
      THEN 0
    ELSE IF addr >= ROM_START /\ addr <= ROM_END
      THEN read_prg_rom(s.rom, addr)
    ELSE 0

\* Bus::mem_write arm of the cartridge range
\* a cartridge write dropped like a write to the PPU range
RomWrite_ignored(s, addr, data) == s

RomWrite(s, addr, data) == Panic(s, "rom_write")

\* the RAM arm with a mask one bit short
RamWrite_short_mask(s, addr, data) ==
    [s EXCEPT !.ram[BitAnd(addr, \b001111111111)] = data]

\* Bus::mem_write arm of the RAM range
RamWrite(s, addr, data) ==
    [s EXCEPT !.ram[BitAnd(addr, \b011111111111)] = data]

\* a bus whose only ranges are the RAM with its mirror mask and the cartridge
mem_write_mirroring_all(s, addr, data) ==
    IF s.fault # "none" THEN s
    ELSE IF addr >= ROM_START
      THEN Panic([s EXCEPT !.log = Append(@, <<addr, data>>)], "rom_write")
      ELSE [s EXCEPT !.log = Append(@, <<addr, data>>),
                     !.ram[BitAnd(addr, \b011111111111)] = data]

\* the write recorded in the log of attempted writes
Logged(s, addr, data) == [s EXCEPT !.log = Append(@, <<addr, data>>)]

\* Bus::mem_write (a panicked machine writes nothing)
mem_write(s, addr, data) ==
    IF s.fault # "none" THEN s
    ELSE IF addr >= CPU_START /\ addr <= CPU_END
      THEN RamWrite(Logged(s, addr, data), addr, data)
    ELSE IF addr >= PPU_START /\ addr <= PPU_END
      THEN Logged(s, addr, data)
    ELSE IF addr >= ROM_START /\ addr <= ROM_END
      THEN RomWrite(Logged(s, addr, data), addr, data)
    ELSE Logged(s, addr, data)

\* Mem::mem_read_u16 (default method): low byte at pos, high byte at pos + 1;
\* the interface never fails, so pos + 1 wraps at 0xFFFF
mem_read_u16(s, pos) ==
    mem_read(s, wrapping_add16(pos, 1)) * 256 + mem_read(s, pos)

\* Mem::mem_write_u16 (default method): low byte at pos, high byte at pos + 1
mem_write_u16(s, pos, data) ==
    mem_write(mem_write(s, pos, data % 256), wrapping_add16(pos, 1),
              data \div 256)

-----------------------------------------------------------------------------
(* CPU (cpu.rs): register and flag primitives.  After a panic nothing more  *)
(* of the handler runs, so every primitive leaves a panicked machine alone. *)

Ok(s) == s.fault = "none"

SetStatus(s, st) == IF Ok(s) THEN [s EXCEPT !.status = st] ELSE s

SetPC(s, pc) == IF Ok(s) THEN [s EXCEPT !.program_counter = pc] ELSE s

carry_in(s) == IF contains(s.status, CARRY) THEN 1 ELSE 0

\* set_zero_and_neg_flags that never clears NEG
set_zero_and_neg_flags_sticky(s, val) ==
    SetStatus(s, IF BitAnd(val, \b10000000) # 0
                   THEN insert(set(s.status, ZERO, val = 0), NEG)
                   ELSE set(s.status, ZERO, val = 0))

\* CPU::set_zero_and_neg_flags
set_zero_and_neg_flags(s, val) ==
    SetStatus(s, set(set(s.status, ZERO, val = 0),
                     NEG, BitAnd(val, \b10000000) # 0))

\* CPU::set_acc
set_acc(s, new_val) ==
    IF Ok(s)
      THEN set_zero_and_neg_flags([s EXCEPT !.accumulator = new_val], new_val)
      ELSE s

\* CPU::set_reg_x
set_reg_x(s, new_val) ==
    IF Ok(s)
      THEN set_zero_and_neg_flags([s EXCEPT !.register_x = new_val], new_val)
      ELSE s

\* CPU::set_reg_y
set_reg_y(s, new_val) ==
    IF Ok(s)
      THEN set_zero_and_neg_flags([s EXCEPT !.register_y = new_val], new_val)
      ELSE s

\* CPU::set_stack_ptr
set_stack_ptr(s, new_val) ==
    IF Ok(s) THEN [s EXCEPT !.stack_ptr = new_val] ELSE s

\* CPU::write_and_set
write_and_set(s, addr, data) ==
    set_zero_and_neg_flags(mem_write(s, addr, data), data)

\* status with CARRY set iff c
with_carry(s, c) == SetStatus(s, set(s.status, CARRY, c))

-----------------------------------------------------------------------------
(* Addressing modes *)

\* zero_page_word reading the high byte at ptr + 1 without the u8 wrap
zero_page_word_unwrapped(s, ptr) ==
    BitOr(mem_read(s, ptr + 1) * 256, mem_read(s, ptr))

\* (hi as u16) << 8 | (lo as u16), lo read at ptr and hi at ptr + 1 (u8 sum)
zero_page_word(s, ptr) ==
    BitOr(mem_read(s, wrapping_add8(ptr, 1)) * 256, mem_read(s, ptr))

\* CPU::get_non_immediate_addr
get_non_immediate_addr(s, mode, curr_addr) ==
    CASE mode = "ZeroPage" -> mem_read(s, curr_addr)
      [] mode = "ZeroPage_X" ->
            wrapping_add8(mem_read(s, curr_addr), s.register_x)
      [] mode = "ZeroPage_Y" ->
            wrapping_add8(mem_read(s, curr_addr), s.register_y)
      [] mode = "Absolute" -> mem_read_u16(s, curr_addr)
      [] mode = "Absolute_X" ->
            wrapping_add16(mem_read_u16(s, curr_addr), s.register_x)
      [] mode = "Absolute_Y" ->
            wrapping_add16(mem_read_u16(s, curr_addr), s.register_y)
      [] mode = "Indirect" -> mem_read_u16(s, mem_read_u16(s, curr_addr))
      [] mode = "Indirect_X" ->
            zero_page_word(s, wrapping_add8(mem_read(s, curr_addr),
                                            s.register_x))
      [] mode = "Indirect_Y" ->
            wrapping_add16(zero_page_word(s, mem_read(s, curr_addr)),
                           s.register_y)
      [] OTHER -> 0

\* CPU::get_operand_address
get_operand_address(s, mode) ==
    IF mode = "Immediate" THEN s.program_counter
    ELSE get_non_immediate_addr(s, mode, s.program_counter)

\* the operand byte of the instruction
Operand(s, mode) == mem_read(s, get_operand_address(s, mode))

-----------------------------------------------------------------------------
(* Stack *)

\* CPU::push_stack
push_stack(s, val) ==
    set_stack_ptr(mem_write(s, BitOr(STACK_END, s.stack_ptr), val),
                  wrapping_sub8(s.stack_ptr, 1))

\* push_stack_u16 pushing the low byte first
push_stack_u16_low_first(s, val) ==
    push_stack(push_stack(s, val % 256), val \div 256)

\* CPU::push_stack_u16
push_stack_u16(s, val) ==
    push_stack(push_stack(s, val \div 256), val % 256)

\* CPU::pull_stack: the machine after the pull; the byte pulled is pulled(s)
pull_stack(s) == set_stack_ptr(s, wrapping_add8(s.stack_ptr, 1))

\* the byte pulled when the incremented pointer carries into the page number
pulled_carrying(s) == mem_read(s, STACK_END + s.stack_ptr + 1)

pulled(s) == mem_read(s, BitOr(STACK_END, wrapping_add8(s.stack_ptr, 1)))

\* CPU::pull_stack_u16: low byte first, then high byte
pull_stack_u16(s) == pull_stack(pull_stack(s))

pulled_u16(s) == BitOr(pulled(s), pulled(pull_stack(s)) * 256)

-----------------------------------------------------------------------------
(* Instructions.  s is the machine after the opcode fetch: program_counter  *)
(* addresses the first operand byte.                                         *)

\* add_to_acc without the carry added in
add_to_acc_without_carry(s, operand) ==
    LET sum    == s.accumulator + operand
        c      == with_carry(s, sum > \hFF)
        result == sum % 256
        v      == BitAnd(BitAnd(BitXor(operand, result),
                                BitXor(s.accumulator, result)), \b10000000) # 0
        o      == SetStatus(c, set(c.status, OVER, v))
    IN  set_acc(o, result)

\* CPU::add_to_acc
add_to_acc(s, operand) ==
    LET sum    == s.accumulator + operand + carry_in(s)
        c      == with_carry(s, sum > \hFF)
        result == sum % 256
        v      == BitAnd(BitAnd(BitXor(operand, result),
                                BitXor(s.accumulator, result)), \b10000000) # 0
        o      == SetStatus(c, set(c.status, OVER, v))
    IN  set_acc(o, result)

\* CPU::aac
aac(s) ==
    LET operand == Operand(s, "Immediate")
        check   == BitAnd(s.accumulator, operand)
        t       == set_zero_and_neg_flags(s, check)
    IN  IF BitAnd(check, \b10000000) # 0
          THEN SetStatus(t, insert(t.status, CARRY))
          ELSE t

\* CPU::adc
adc(s, mode) == add_to_acc(s, Operand(s, mode))

\* CPU::and
and(s, mode) == set_acc(s, BitAnd(s.accumulator, Operand(s, mode)))

\* CPU::asl_acc
asl_acc(s) ==
    LET initial_val == s.accumulator
        c == with_carry(s, BitAnd(initial_val, \b10000000) # 0)
    IN  set_acc(c, Shl8(s.accumulator))

\* CPU::asl
asl(s, mode) ==
    LET addr        == get_operand_address(s, mode)
        initial_val == mem_read(s, addr)
        final_val   == Shl8(initial_val)
        c == with_carry(s, BitAnd(initial_val, \b10000000) # 0)
    IN  write_and_set(c, addr, final_val)

\* CPU::lsr_acc
lsr_acc(s) ==
    LET c == with_carry(s, BitAnd(s.accumulator, \b00000001) # 0)
    IN  set_acc(c, Shr8(s.accumulator))

\* CPU::lsr
lsr(s, mode) ==
    LET addr        == get_operand_address(s, mode)
        initial_val == mem_read(s, addr)
        final_val   == Shr8(initial_val)
        c == with_carry(s, BitAnd(initial_val, \b00000001) # 0)
    IN  write_and_set(c, addr, final_val)

\* CPU::rol_acc
rol_acc(s) ==
    LET prev_acc == s.accumulator
        t == IF contains(s.status, CARRY)
               THEN set_acc(s, BitOr(Shl8(s.accumulator), \b00000001))
               ELSE set_acc(s, Shl8(s.accumulator))
    IN  with_carry(t, BitAnd(prev_acc, \b10000000) # 0)

\* CPU::rol: the value written (the method's return value)
rol_val(s, mode) ==
    LET initial_val == Operand(s, mode)
    IN  IF contains(s.status, CARRY)
          THEN BitOr(Shl8(initial_val), \b00000001)
          ELSE Shl8(initial_val)

\* CPU::rol
rol(s, mode) ==
    LET addr        == get_operand_address(s, mode)
        initial_val == mem_read(s, addr)
        c == with_carry(s, BitAnd(initial_val, \b10000000) # 0)
    IN  write_and_set(c, addr, rol_val(s, mode))

\* ror_acc updating CARRY before it rotates, so that the bit shifted out
\* comes back in at bit 7
ror_acc_carry_first(s) ==
    IF BitAnd(s.accumulator, \b00000001) # 0
      THEN set_acc(with_carry(s, TRUE),
                   BitOr(Shr8(s.accumulator), \b10000000))
      ELSE set_acc(with_carry(s, FALSE), Shr8(s.accumulator))

\* CPU::ror_acc
ror_acc(s) ==
    LET prev_acc == s.accumulator
        t == IF contains(s.status, CARRY)
               THEN set_acc(s, BitOr(Shr8(s.accumulator), \b10000000))
               ELSE set_acc(s, Shr8(s.accumulator))
    IN  with_carry(t, BitAnd(prev_acc, \b00000001) # 0)

\* CPU::ror: the value written (the method's return value)
ror_val(s, mode) ==
    LET initial_val == Operand(s, mode)
    IN  IF contains(s.status, CARRY)
          THEN BitOr(Shr8(initial_val), \b10000000)
          ELSE Shr8(initial_val)

\* CPU::ror
ror(s, mode) ==
    LET addr        == get_operand_address(s, mode)
        initial_val == mem_read(s, addr)
        c == with_carry(s, BitAnd(initial_val, \b00000001) # 0)
    IN  write_and_set(c, addr, ror_val(s, mode))

\* CPU::arr
arr(s) ==
    LET operand == Operand(s, "Immediate")
        t    == ror_acc(set_acc(s, BitAnd(s.accumulator, operand)))
        bit6 == BitAnd(t.accumulator, \b00100000) # 0
        bit5 == BitAnd(t.accumulator, \b00010000) # 0
        c    == with_carry(t, bit6)
    IN  SetStatus(c, set(c.status, OVER, bit6 # bit5))

\* CPU::asr
asr(s) ==
    lsr_acc(set_acc(s, BitAnd(s.accumulator, Operand(s, "Immediate"))))

\* CPU::atx
atx(s) ==
    LET t == set_acc(s, BitAnd(s.accumulator, Operand(s, "Immediate")))
    IN  set_reg_x(t, t.accumulator)

\* CPU::axa
axa(s, mode) ==
    LET addr == get_operand_address(s, mode)
    IN  mem_write(s, addr, BitAnd(BitAnd(s.accumulator, s.register_x), 7))

\* CPU::axs
axs(s) ==
    LET m       == Operand(s, "Immediate")
        operand == SignExtend(wrapping_sub8(0, m))
        lhs     == BitAnd(s.register_x, s.accumulator)
        new_val == wrapping_add16(lhs, operand)
    IN  IF s.overflow_checks /\ Overflows16(lhs, operand)
          THEN Panic(s, "overflow")
          ELSE set_reg_x(with_carry(s, new_val > \hFF), new_val % 256)

\* bit taking NEG and OVER from the AND result
bit_of_result(s, mode) ==
    LET mask == Operand(s, mode)
        res  == BitAnd(mask, s.accumulator)
        z == IF res = 0 THEN insert(s.status, ZERO) ELSE remove(s.status, ZERO)
        n == set(z, NEG, BitAnd(res, \b10000000) > 0)
        v == set(n, OVER, BitAnd(res, \b01000000) > 0)
    IN  SetStatus(s, v)

\* CPU::bit
bit(s, mode) ==
    LET mask == Operand(s, mode)
        res  == BitAnd(mask, s.accumulator)
        z == IF res = 0 THEN insert(s.status, ZERO) ELSE remove(s.status, ZERO)
        n == set(z, NEG, BitAnd(mask, \b10000000) > 0)
        v == set(n, OVER, BitAnd(mask, \b01000000) > 0)
    IN  SetStatus(s, v)

\* CPU::branch
branch(s, condition) ==
    IF ~condition THEN s
    ELSE LET operand == SignExtend(mem_read(s, s.program_counter))
         IN  SetPC(s, wrapping_add16(wrapping_add16(s.program_counter, 1),
                                     operand))

\* cmp setting CARRY only when the operand is less than the register
cmp_strict(s, mode, register_val) ==
    LET val == Operand(s, mode)
        c   == with_carry(s, val < register_val)
    IN  set_zero_and_neg_flags(c, wrapping_sub8(register_val, val))

\* CPU::cmp
cmp(s, mode, register_val) ==
    LET val == Operand(s, mode)
        c   == with_carry(s, val <= register_val)
    IN  set_zero_and_neg_flags(c, wrapping_sub8(register_val, val))

\* CPU::dcp
dcp(s, mode) ==
    LET addr == get_operand_address(s, mode)
        val  == wrapping_sub8(mem_read(s, addr), 1)
        w    == mem_write(s, addr, val)
        c    == IF val <= s.accumulator
                  THEN SetStatus(w, insert(w.status, CARRY))
                  ELSE w
    IN  set_zero_and_neg_flags(c, wrapping_sub8(s.accumulator, val))

\* CPU::dec
dec(s, mode) ==
    LET addr == get_operand_address(s, mode)
    IN  write_and_set(s, addr, wrapping_sub8(mem_read(s, addr), 1))

\* dex stopping at 0 instead of wrapping to 0xFF
dex_saturating(s) ==
    set_reg_x(s, IF s.register_x = 0 THEN 0 ELSE s.register_x - 1)

\* CPU::dex
dex(s) == set_reg_x(s, wrapping_sub8(s.register_x, 1))

\* CPU::dey
dey(s) == set_reg_y(s, wrapping_sub8(s.register_y, 1))

\* CPU::eor
eor(s, mode) == set_acc(s, BitXor(s.accumulator, Operand(s, mode)))

\* CPU::inc
inc(s, mode) ==
    LET addr == get_operand_address(s, mode)
    IN  write_and_set(s, addr, wrapping_add8(mem_read(s, addr), 1))

\* CPU::inx
inx(s) == set_reg_x(s, wrapping_add8(s.register_x, 1))

\* CPU::iny
iny(s) == set_reg_y(s, wrapping_add8(s.register_y, 1))

\* the operand negated, without the further subtraction of 1
Negated(operand) == wrapping_sub8(0, operand)

\* (operand as i8).wrapping_neg().wrapping_sub(1) as u8
NegMinusOne(operand) == wrapping_sub8(wrapping_sub8(0, operand), 1)

\* CPU::isc
isc(s, mode) ==
    LET addr    == get_operand_address(s, mode)
        operand == wrapping_add8(mem_read(s, addr), 1)
        w       == mem_write(s, addr, operand)
    IN  IF Ok(w) THEN add_to_acc(w, NegMinusOne(operand)) ELSE w

\* CPU::jsr
jsr(s) ==
    LET addr == get_operand_address(s, "Absolute")
    IN  IF s.overflow_checks /\ Overflows16(s.program_counter, 1)
          THEN Panic(s, "overflow")
          ELSE SetPC(push_stack_u16(s, wrapping_add16(s.program_counter, 1)),
                     addr)

\* CPU::lar
lar(s) ==
    LET addr    == get_operand_address(s, "Absolute_Y")
        operand == mem_read(s, addr)
        val     == BitAnd(operand, s.stack_ptr)
        w       == mem_write(s, addr, val)
    IN  set_stack_ptr(set_reg_x(set_acc(w, val), val), val)

\* CPU::lax
lax(s, mode) ==
    LET operand == Operand(s, mode)
    IN  set_reg_x(set_acc(s, operand), operand)

\* CPU::lda
lda(s, mode) == set_acc(s, Operand(s, mode))

\* CPU::ldx
ldx(s, mode) == set_reg_x(s, Operand(s, mode))

\* CPU::ldy
ldy(s, mode) == set_reg_y(s, Operand(s, mode))

\* CPU::ora
ora(s, mode) == set_acc(s, BitOr(s.accumulator, Operand(s, mode)))

\* CPU::php
php(s) ==
    LET flags == insert(insert(s.status, BRK), BRK2)
    IN  push_stack(s, flags)

\* CPU::pla
pla(s) == set_acc(pull_stack(s), pulled(s))

\* plp taking the pulled byte as it is
plp_unforced(s) == SetStatus(pull_stack(s), pulled(s))

\* CPU::plp
plp(s) ==
    LET bits == pulled(s)
    IN  SetStatus(pull_stack(s), insert(remove(bits, BRK), BRK2))

\* rla combining the accumulator with the byte before the rotation
rla_of_old_byte(s, mode) ==
    set_acc(rol(s, mode), BitAnd(Operand(s, mode), s.accumulator))

\* CPU::rla
rla(s, mode) ==
    LET operand == rol_val(s, mode)
        t       == rol(s, mode)
    IN  set_acc(t, BitAnd(operand, t.accumulator))

\* CPU::rra
rra(s, mode) ==
    LET operand == ror_val(s, mode)
        t       == ror(s, mode)
    IN  IF Ok(t) THEN add_to_acc(t, operand) ELSE t

\* rti storing the pulled byte as the status, BREAK and BREAK2 as pulled
rti_unforced(s) ==
    SetPC(pull_stack_u16(SetStatus(pull_stack(s), pulled(s))),
          pulled_u16(SetStatus(pull_stack(s), pulled(s))))

\* CPU::rti
rti(s) ==
    LET bits == pulled(s)
        t    == SetStatus(pull_stack(s), insert(remove(bits, BRK), BRK2))
    IN  SetPC(pull_stack_u16(t), pulled_u16(t))

\* rts without the increment of the pulled address
rts_without_increment(s) == SetPC(pull_stack_u16(s), pulled_u16(s))

\* CPU::rts
rts(s) ==
    SetPC(pull_stack_u16(s), wrapping_add16(pulled_u16(s), 1))

\* CPU::sax
sax(s, mode) ==
    LET addr == get_operand_address(s, mode)
        val  == BitAnd(s.accumulator, s.register_x)
    IN  mem_write(s, addr, val)

\* sbc adding the negated operand, without the further subtraction of 1
sbc_negating(s, mode) == add_to_acc(s, wrapping_sub8(0, Operand(s, mode)))

\* CPU::sbc
sbc(s, mode) == add_to_acc(s, NegMinusOne(Operand(s, mode)))

\* CPU::slo
slo(s, mode) ==
    LET addr    == get_operand_address(s, mode)
        operand == mem_read(s, addr)
        c       == with_carry(s, BitAnd(operand, \b10000000) # 0)
        new_op  == Shl8(operand)
        w       == mem_write(c, addr, new_op)
    IN  set_acc(w, BitOr(new_op, w.accumulator))

\* CPU::sre
sre(s, mode) ==
    LET addr    == get_operand_address(s, mode)
        operand == mem_read(s, addr)
        c       == with_carry(s, BitAnd(operand, 1) # 0)
        w       == mem_write(c, addr, Shr8(operand))
    IN  set_acc(w, BitXor(Shr8(operand), w.accumulator))

\* CPU::sta
sta(s, mode) == mem_write(s, get_operand_address(s, mode), s.accumulator)

\* CPU::stx
stx(s, mode) == mem_write(s, get_operand_address(s, mode), s.register_x)

\* CPU::sty
sty(s, mode) == mem_write(s, get_operand_address(s, mode), s.register_y)

\* (high + 1) & reg written at addr, by sxa / sya / xas; high + 1 is a u8 sum
store_high_plus_one(s, addr, reg) ==
    LET high == addr \div 256
    IN  IF s.overflow_checks /\ Overflows8(high, 1)
          THEN Panic(s, "overflow")
          ELSE mem_write(s, addr, BitAnd(wrapping_add8(high, 1), reg))

\* CPU::sxa
sxa(s) ==
    store_high_plus_one(s, get_operand_address(s, "Absolute_Y"), s.register_x)

\* CPU::sya
sya(s) ==
    store_high_plus_one(s, get_operand_address(s, "Absolute_X"), s.register_y)

\* CPU::xaa
xaa(s) == set_acc(s, BitAnd(s.register_x, Operand(s, "Immediate")))

\* CPU::xas
xas(s) ==
    LET new_stack_ptr == BitAnd(s.accumulator, s.register_x)
        t    == set_stack_ptr(s, new_stack_ptr)
        addr == get_operand_address(t, "Absolute_Y")
    IN  store_high_plus_one(t, addr, t.stack_ptr)

-----------------------------------------------------------------------------
(* Opcode table (opcodes.rs) *)

OpCode(code, operation, len, cycles, mode) ==
    [code |-> code, operation |-> operation, len |-> len, cycles |-> cycles,
     mode |-> mode]

\* OPCODES: the table, in source order
OPCODES == <<
    OpCode(\h0B, "AAC", 2, 2, "Immediate"),
    OpCode(\h2B, "AAC", 2, 2, "Immediate"),
    OpCode(\h87, "AAX", 2, 3, "ZeroPage"),
    OpCode(\h97, "AAX", 2, 4, "ZeroPage_Y"),
    OpCode(\h83, "AAX", 2, 6, "Indirect_X"),
    OpCode(\h8F, "AAX", 3, 4, "Absolute"),
    OpCode(\h69, "ADC", 2, 2, "Immediate"),
    OpCode(\h65, "ADC", 2, 3, "ZeroPage"),
    OpCode(\h75, "ADC", 2, 4, "ZeroPage_X"),
    OpCode(\h6D, "ADC", 3, 4, "Absolute"),
    OpCode(\h7D, "ADC", 3, 4, "Absolute_X"),
    OpCode(\h79, "ADC", 3, 4, "Absolute_Y"),
    OpCode(\h61, "ADC", 2, 6, "Indirect_X"),
    OpCode(\h71, "ADC", 2, 5, "Indirect_Y"),
    OpCode(\h29, "AND", 2, 2, "Immediate"),
    OpCode(\h25, "AND", 2, 3, "ZeroPage"),
    OpCode(\h35, "AND", 2, 4, "ZeroPage_X"),
    OpCode(\h2D, "AND", 3, 4, "Absolute"),
    OpCode(\h3D, "AND", 3, 4, "Absolute_X"),
    OpCode(\h39, "AND", 3, 4, "Absolute_Y"),
    OpCode(\h21, "AND", 2, 6, "Indirect_X"),
    OpCode(\h31, "AND", 2, 5, "Indirect_Y"),
    OpCode(\h6B, "ARR", 2, 2, "Immediate"),
    OpCode(\h0A, "ASL", 1, 2, "NoneAddressing"),
    OpCode(\h06, "ASL", 2, 5, "ZeroPage"),
    OpCode(\h16, "ASL", 2, 6, "ZeroPage_X"),
    OpCode(\h0E, "ASL", 3, 6, "Absolute"),
    OpCode(\h1E, "ASL", 3, 7, "Absolute_X"),
    OpCode(\h4B, "ASR", 2, 2, "Immediate"),
    OpCode(\hAB, "ATX", 2, 2, "Immediate"),
    OpCode(\h9F, "AXA", 3, 5, "Absolute_Y"),
    OpCode(\h93, "AXA", 2, 6, "Indirect_Y"),
    OpCode(\hCB, "AXS", 2, 2, "Immediate"),
    OpCode(\h90, "BCC", 2, 2, "NoneAddressing"),
    OpCode(\hB0, "BCS", 2, 2, "NoneAddressing"),
    OpCode(\hF0, "BEQ", 2, 2, "NoneAddressing"),
    OpCode(\h24, "BIT", 2, 3, "ZeroPage"),
    OpCode(\h2C, "BIT", 3, 4, "Absolute"),
    OpCode(\h30, "BMI", 2, 2, "NoneAddressing"),
    OpCode(\hD0, "BNE", 2, 2, "NoneAddressing"),
    OpCode(\h10, "BPL", 2, 2, "NoneAddressing"),
    OpCode(\h00, "BRK", 1, 7, "NoneAddressing"),
    OpCode(\h50, "BVC", 2, 2, "NoneAddressing"),
    OpCode(\h70, "BVS", 2, 2, "NoneAddressing"),
    OpCode(\h18, "CLC", 1, 2, "NoneAddressing"),
    OpCode(\hD8, "CLD", 1, 2, "NoneAddressing"),
    OpCode(\h58, "CLI", 1, 2, "NoneAddressing"),
    OpCode(\hB8, "CLV", 1, 2, "NoneAddressing"),
    OpCode(\hC9, "CMP", 2, 2, "Immediate"),
    OpCode(\hC5, "CMP", 2, 3, "ZeroPage"),
    OpCode(\hD5, "CMP", 2, 4, "ZeroPage_X"),
    OpCode(\hCD, "CMP", 3, 4, "Absolute"),
    OpCode(\hDD, "CMP", 3, 4, "Absolute_X"),
    OpCode(\hD9, "CMP", 3, 4, "Absolute_Y"),
    OpCode(\hC1, "CMP", 2, 6, "Indirect_X"),
    OpCode(\hD1, "CMP", 2, 5, "Indirect_Y"),
    OpCode(\hE0, "CPX", 2, 2, "Immediate"),
    OpCode(\hE4, "CPX", 2, 3, "ZeroPage"),
    OpCode(\hEC, "CPX", 2, 4, "Absolute"),
    OpCode(\hC0, "CPY", 2, 2, "Immediate"),
    OpCode(\hC4, "CPY", 2, 3, "ZeroPage"),
    OpCode(\hCC, "CPY", 2, 4, "Absolute"),
    OpCode(\hC7, "DCP", 2, 5, "ZeroPage"),
    OpCode(\hD7, "DCP", 2, 6, "ZeroPage_X"),
    OpCode(\hCF, "DCP", 3, 6, "Absolute"),
    OpCode(\hDF, "DCP", 3, 7, "Absolute_X"),
    OpCode(\hDB, "DCP", 3, 7, "Absolute_Y"),
    OpCode(\hC3, "DCP", 2, 8, "Indirect_X"),
    OpCode(\hD3, "DCP", 2, 8, "Indirect_Y"),
    OpCode(\hC6, "DEC", 2, 5, "ZeroPage"),
    OpCode(\hD6, "DEC", 2, 6, "ZeroPage_X"),
    OpCode(\hCE, "DEC", 3, 6, "Absolute"),
    OpCode(\hDE, "DEC", 3, 7, "Absolute_X"),
    OpCode(\hCA, "DEX", 1, 2, "NoneAddressing"),
    OpCode(\h88, "DEY", 1, 2, "NoneAddressing"),
    OpCode(\h04, "DOP", 2, 3, "ZeroPage"),
    OpCode(\h14, "DOP", 2, 4, "ZeroPage_X"),
    OpCode(\h34, "DOP", 2, 4, "ZeroPage_X"),
    OpCode(\h44, "DOP", 2, 3, "ZeroPage"),
    OpCode(\h54, "DOP", 2, 4, "ZeroPage_X"),
    OpCode(\h64, "DOP", 2, 3, "ZeroPage"),
    OpCode(\h74, "DOP", 2, 4, "ZeroPage_X"),
    OpCode(\h80, "DOP", 2, 2, "Immediate"),
    OpCode(\h82, "DOP", 2, 2, "Immediate"),
    OpCode(\h89, "DOP", 2, 2, "Immediate"),
    OpCode(\hC2, "DOP", 2, 2, "Immediate"),
    OpCode(\hD4, "DOP", 2, 4, "ZeroPage_X"),
    OpCode(\hE2, "DOP", 2, 2, "Immediate"),
    OpCode(\hF4, "DOP", 2, 4, "ZeroPage_X"),
    OpCode(\h49, "EOR", 2, 2, "Immediate"),
    OpCode(\h45, "EOR", 2, 3, "ZeroPage"),
    OpCode(\h55, "EOR", 2, 4, "ZeroPage_X"),
    OpCode(\h4D, "EOR", 3, 4, "Absolute"),
    OpCode(\h5D, "EOR", 3, 4, "Absolute_X"),
    OpCode(\h59, "EOR", 3, 4, "Absolute_Y"),
    OpCode(\h41, "EOR", 2, 6, "Indirect_X"),
    OpCode(\h51, "EOR", 2, 5, "Indirect_Y"),
    OpCode(\hE6, "INC", 2, 5, "ZeroPage"),
    OpCode(\hF6, "INC", 2, 6, "ZeroPage_X"),
    OpCode(\hEE, "INC", 3, 6, "Absolute"),
    OpCode(\hFE, "INC", 3, 7, "Absolute_X"),
    OpCode(\hE8, "INX", 1, 2, "NoneAddressing"),
    OpCode(\hC8, "INY", 1, 2, "NoneAddressing"),
    OpCode(\hE7, "ISC", 2, 5, "ZeroPage"),
    OpCode(\hF7, "ISC", 2, 6, "ZeroPage_X"),
    OpCode(\hEF, "ISC", 3, 6, "Absolute"),
    OpCode(\hFF, "ISC", 3, 7, "Absolute_X"),
    OpCode(\hFB, "ISC", 3, 7, "Absolute_Y"),
    OpCode(\hE3, "ISC", 2, 8, "Indirect_X"),
    OpCode(\hF3, "ISC", 2, 8, "Indirect_Y"),
    OpCode(\h4C, "JMP", 3, 3, "Absolute"),
    OpCode(\h6C, "JMP", 3, 5, "Indirect"),
    OpCode(\h20, "JSR", 3, 6, "Absolute"),
    OpCode(\h02, "KIL", 1, 0, "NoneAddressing"),
    OpCode(\h12, "KIL", 1, 0, "NoneAddressing"),
    OpCode(\h22, "KIL", 1, 0, "NoneAddressing"),
    OpCode(\h32, "KIL", 1, 0, "NoneAddressing"),
    OpCode(\h42, "KIL", 1, 0, "NoneAddressing"),
    OpCode(\h52, "KIL", 1, 0, "NoneAddressing"),
    OpCode(\h62, "KIL", 1, 0, "NoneAddressing"),
    OpCode(\h72, "KIL", 1, 0, "NoneAddressing"),
    OpCode(\h92, "KIL", 1, 0, "NoneAddressing"),
    OpCode(\hB2, "KIL", 1, 0, "NoneAddressing"),
    OpCode(\hD2, "KIL", 1, 0, "NoneAddressing"),
    OpCode(\hF2, "KIL", 1, 0, "NoneAddressing"),
    OpCode(\hBB, "LAR", 3, 4, "Absolute_Y"),
    OpCode(\hA7, "LAX", 2, 3, "ZeroPage"),
    OpCode(\hB7, "LAX", 2, 4, "ZeroPage_Y"),
    OpCode(\hAF, "LAX", 3, 4, "Absolute"),
    OpCode(\hBF, "LAX", 3, 4, "Absolute_Y"),
    OpCode(\hA3, "LAX", 2, 6, "Indirect_X"),
    OpCode(\hB3, "LAX", 2, 5, "Indirect_Y"),
    OpCode(\hA9, "LDA", 2, 2, "Immediate"),
    OpCode(\hA5, "LDA", 2, 3, "ZeroPage"),
    OpCode(\hB5, "LDA", 2, 4, "ZeroPage_X"),
    OpCode(\hAD, "LDA", 3, 4, "Absolute"),
    OpCode(\hBD, "LDA", 3, 4, "Absolute_X"),
    OpCode(\hB9, "LDA", 3, 4, "Absolute_Y"),
    OpCode(\hA1, "LDA", 2, 6, "Indirect_X"),
    OpCode(\hB1, "LDA", 2, 5, "Indirect_Y"),
    OpCode(\hA2, "LDX", 2, 2, "Immediate"),
    OpCode(\hA6, "LDX", 2, 3, "ZeroPage"),
    OpCode(\hB6, "LDX", 2, 4, "ZeroPage_Y"),
    OpCode(\hAE, "LDX", 3, 4, "Absolute"),
    OpCode(\hBE, "LDX", 3, 4, "Absolute_Y"),
    OpCode(\hA0, "LDY", 2, 2, "Immediate"),
    OpCode(\hA4, "LDY", 2, 3, "ZeroPage"),
    OpCode(\hB4, "LDY", 2, 4, "ZeroPage_X"),
    OpCode(\hAC, "LDY", 3, 4, "Absolute"),
    OpCode(\hBC, "LDY", 3, 4, "Absolute_X"),
    OpCode(\h4A, "LSR", 1, 2, "NoneAddressing"),
    OpCode(\h46, "LSR", 2, 5, "ZeroPage"),
    OpCode(\h56, "LSR", 2, 6, "ZeroPage_X"),
    OpCode(\h4E, "LSR", 3, 6, "Absolute"),
    OpCode(\h5E, "LSR", 3, 7, "Absolute_X"),
    OpCode(\hEA, "NOP", 1, 2, "NoneAddressing"),
    OpCode(\h1A, "NOP", 1, 2, "NoneAddressing"),
    OpCode(\h3A, "NOP", 1, 2, "NoneAddressing"),
    OpCode(\h5A, "NOP", 1, 2, "NoneAddressing"),
    OpCode(\h7A, "NOP", 1, 2, "NoneAddressing"),
    OpCode(\hDA, "NOP", 1, 2, "NoneAddressing"),
    OpCode(\hFA, "NOP", 1, 2, "NoneAddressing"),
    OpCode(\h09, "ORA", 2, 2, "Immediate"),
    OpCode(\h05, "ORA", 2, 3, "ZeroPage"),
    OpCode(\h15, "ORA", 2, 4, "ZeroPage_X"),
    OpCode(\h0D, "ORA", 3, 4, "Absolute"),
    OpCode(\h1D, "ORA", 3, 4, "Absolute_X"),
    OpCode(\h19, "ORA", 3, 4, "Absolute_Y"),
    OpCode(\h01, "ORA", 2, 6, "Indirect_X"),
    OpCode(\h11, "ORA", 2, 5, "Indirect_Y"),
    OpCode(\h48, "PHA", 1, 3, "NoneAddressing"),
    OpCode(\h08, "PHP", 1, 3, "NoneAddressing"),
    OpCode(\h68, "PLA", 1, 4, "NoneAddressing"),
    OpCode(\h28, "PLP", 1, 4, "NoneAddressing"),
    OpCode(\h27, "RLA", 2, 5, "ZeroPage"),
    OpCode(\h37, "RLA", 2, 6, "ZeroPage_X"),
    OpCode(\h2F, "RLA", 3, 6, "Absolute"),
    OpCode(\h3F, "RLA", 3, 7, "Absolute_X"),
    OpCode(\h3B, "RLA", 3, 7, "Absolute_Y"),
    OpCode(\h23, "RLA", 2, 8, "Indirect_X"),
    OpCode(\h33, "RLA", 2, 8, "Indirect_Y"),
    OpCode(\h67, "RRA", 2, 5, "ZeroPage"),
    OpCode(\h77, "RRA", 2, 6, "ZeroPage_X"),
    OpCode(\h6F, "RRA", 3, 6, "Absolute"),
    OpCode(\h7F, "RRA", 3, 7, "Absolute_X"),
    OpCode(\h7B, "RRA", 3, 7, "Absolute_Y"),
    OpCode(\h63, "RRA", 2, 8, "Indirect_X"),
    OpCode(\h73, "RRA", 2, 8, "Indirect_Y"),
    OpCode(\h2A, "ROL", 1, 2, "NoneAddressing"),
    OpCode(\h26, "ROL", 2, 5, "ZeroPage"),
    OpCode(\h36, "ROL", 2, 6, "ZeroPage_X"),
    OpCode(\h2E, "ROL", 3, 6, "Absolute"),
    OpCode(\h3E, "ROL", 3, 7, "Absolute_X"),
    OpCode(\h6A, "ROR", 1, 2, "NoneAddressing"),
    OpCode(\h66, "ROR", 2, 5, "ZeroPage"),
    OpCode(\h76, "ROR", 2, 6, "ZeroPage_X"),
    OpCode(\h6E, "ROR", 3, 6, "Absolute"),
    OpCode(\h7E, "ROR", 3, 7, "Absolute_X"),
    OpCode(\h40, "RTI", 1, 6, "NoneAddressing"),
    OpCode(\h60, "RTS", 1, 6, "NoneAddressing"),
    OpCode(\hEB, "SBC", 2, 2, "Immediate"),
    OpCode(\hE9, "SBC", 2, 2, "Immediate"),
    OpCode(\hE5, "SBC", 2, 3, "ZeroPage"),
    OpCode(\hF5, "SBC", 2, 4, "ZeroPage_X"),
    OpCode(\hED, "SBC", 3, 4, "Absolute"),
    OpCode(\hFD, "SBC", 3, 4, "Absolute_X"),
    OpCode(\hF9, "SBC", 3, 4, "Absolute_Y"),
    OpCode(\hE1, "SBC", 2, 6, "Indirect_X"),
    OpCode(\hF1, "SBC", 2, 5, "Indirect_Y"),
    OpCode(\h38, "SEC", 1, 2, "NoneAddressing"),
    OpCode(\hF8, "SED", 1, 2, "NoneAddressing"),
    OpCode(\h78, "SEI", 1, 2, "NoneAddressing"),
    OpCode(\h07, "SLO", 2, 5, "ZeroPage"),
    OpCode(\h17, "SLO", 2, 6, "ZeroPage_X"),
    OpCode(\h0F, "SLO", 3, 6, "Absolute"),
    OpCode(\h1F, "SLO", 3, 7, "Absolute_X"),
    OpCode(\h1B, "SLO", 3, 7, "Absolute_Y"),
    OpCode(\h03, "SLO", 2, 8, "Indirect_X"),
    OpCode(\h13, "SLO", 2, 8, "Indirect_Y"),
    OpCode(\h47, "SRE", 2, 5, "ZeroPage"),
    OpCode(\h57, "SRE", 2, 6, "ZeroPage_X"),
    OpCode(\h4F, "SRE", 3, 6, "Absolute"),
    OpCode(\h5F, "SRE", 3, 7, "Absolute_X"),
    OpCode(\h5B, "SRE", 3, 7, "Absolute_Y"),
    OpCode(\h43, "SRE", 2, 8, "Indirect_X"),
    OpCode(\h53, "SRE", 2, 8, "Indirect_Y"),
    OpCode(\h85, "STA", 2, 3, "ZeroPage"),
    OpCode(\h95, "STA", 2, 4, "ZeroPage_X"),
    OpCode(\h8D, "STA", 3, 4, "Absolute"),
    OpCode(\h9D, "STA", 3, 5, "Absolute_X"),
    OpCode(\h99, "STA", 3, 5, "Absolute_Y"),
    OpCode(\h81, "STA", 2, 6, "Indirect_X"),
    OpCode(\h91, "STA", 2, 6, "Indirect_Y"),
    OpCode(\h86, "STX", 2, 3, "ZeroPage"),
    OpCode(\h96, "STX", 2, 4, "ZeroPage_Y"),
    OpCode(\h8E, "STX", 3, 4, "Absolute"),
    OpCode(\h84, "STY", 2, 3, "ZeroPage"),
    OpCode(\h94, "STY", 2, 4, "ZeroPage_X"),
    OpCode(\h8C, "STY", 3, 4, "Absolute"),
    OpCode(\h9E, "SXA", 3, 5, "Absolute_Y"),
    OpCode(\h9C, "SYA", 3, 5, "Absolute_X"),
    OpCode(\hAA, "TAX", 1, 2, "NoneAddressing"),
    OpCode(\hA8, "TAY", 1, 2, "NoneAddressing"),
    OpCode(\h0C, "TOP", 3, 4, "Absolute"),
    OpCode(\h1C, "TOP", 3, 4, "Absolute_X"),
    OpCode(\h3C, "TOP", 3, 4, "Absolute_X"),
    OpCode(\h5C, "TOP", 3, 4, "Absolute_X"),
    OpCode(\h7C, "TOP", 3, 4, "Absolute_X"),
    OpCode(\hDC, "TOP", 3, 4, "Absolute_X"),
    OpCode(\hFC, "TOP", 3, 4, "Absolute_X"),
    OpCode(\hBA, "TSX", 1, 2, "NoneAddressing"),
    OpCode(\h8A, "TXA", 1, 2, "NoneAddressing"),
    OpCode(\h9A, "TXS", 1, 2, "NoneAddressing"),
    OpCode(\h98, "TYA", 1, 2, "NoneAddressing"),
    OpCode(\h8B, "XAA", 2, 2, "Immediate"),
    OpCode(\h9B, "XAS", 3, 5, "Absolute_Y")
    >>

\* the codes the table names
TableCodes(table) == {table[i].code : i \in DOMAIN table}

\* HashMap::insert over the table in order: the last entry of a code wins
BuildMap(table) ==
    [c \in TableCodes(table) |->
        table[CHOOSE i \in DOMAIN table :
                /\ table[i].code = c
                /\ \A j \in DOMAIN table : j > i => table[j].code # c]]

\* the map with the entry of one unofficial opcode lost
OPCODES_MAP_lacking_entry ==
    [c \in TableCodes(OPCODES) \ {\hFF} |-> BuildMap(OPCODES)[c]]

\* OPCODES_MAP
OPCODES_MAP == BuildMap(OPCODES)

-----------------------------------------------------------------------------
(* The fetch-decode-execute loop (CPU::run_with_callback) *)

\* BRK as the 6502 does it: counter and status pushed before the flag
brk_pushing(s) ==
    SetStatus(push_stack(push_stack_u16(s, s.program_counter), s.status),
              insert(s.status, BRK))

\* arm 0x00 (BRK): set the BREAK flag (the arm then returns)
brk(s) == SetStatus(s, insert(s.status, BRK))

\* arm 0x4C (JMP absolute)
jmp(s) ==
    LET jmp_addr == mem_read_u16(s, s.program_counter)
    IN  SetPC(s, jmp_addr)

\* arm 0x6C (JMP indirect)
jmp_indirect(s) ==
    LET mem_addr == mem_read_u16(s, s.program_counter)
        jmp_addr ==
            IF BitAnd(mem_addr, \h00FF) = \h00FF
              THEN LET lo == mem_read(s, mem_addr)
                       hi == mem_read(s, BitAnd(mem_addr, \hFF00))
                   IN  BitOr(hi * 256, lo)
              ELSE mem_read_u16(s, mem_addr)
    IN  SetPC(s, jmp_addr)

\* the KIL arm falling through instead of returning
ReturnCodes_brk_only == {\h00}

\* the arms that leave the loop: BRK and the KIL opcodes
ReturnCodes ==
    {\h00} \cup {\h02, \h12, \h22, \h32, \h42, \h52, \h62, \h72,
                 \h92, \hB2, \hD2, \hF2}

\* `match code { ... }`: the instruction run for the fetched opcode
Dispatch(s, code, opcode) ==
    CASE code \in {\h0B, \h2B} -> aac(s)
      [] code \in {\h87, \h97, \h83, \h8F} -> sax(s, opcode.mode)
      [] code \in {\h69, \h65, \h75, \h6D, \h7D, \h79, \h61, \h71} ->
            adc(s, opcode.mode)
      [] code \in {\h29, \h25, \h35, \h2D, \h3D, \h39, \h21, \h31} ->
            and(s, opcode.mode)
      [] code = \h6B -> arr(s)
      [] code = \h0A -> asl_acc(s)
      [] code \in {\h06, \h16, \h0E, \h1E} -> asl(s, opcode.mode)
      [] code = \h4B -> asr(s)
      [] code = \hAB -> atx(s)
      [] code \in {\h9F, \h93} -> axa(s, opcode.mode)
      [] code = \hCB -> axs(s)
      [] code = \h90 -> branch(s, ~contains(s.status, CARRY))
      [] code = \hB0 -> branch(s, contains(s.status, CARRY))
      [] code = \hF0 -> branch(s, contains(s.status, ZERO))
      [] code \in {\h24, \h2C} -> bit(s, opcode.mode)
      [] code = \h30 -> branch(s, contains(s.status, NEG))
      [] code = \hD0 -> branch(s, ~contains(s.status, ZERO))
      [] code = \h10 -> branch(s, ~contains(s.status, NEG))
      [] code = \h00 -> brk(s)
      [] code = \h50 -> branch(s, ~contains(s.status, OVER))
      [] code = \h70 -> branch(s, contains(s.status, OVER))
      [] code = \h18 -> SetStatus(s, remove(s.status, CARRY))
      [] code = \hD8 -> SetStatus(s, remove(s.status, DEC))
      [] code = \h58 -> SetStatus(s, remove(s.status, INT))
      [] code = \hB8 -> SetStatus(s, remove(s.status, OVER))
      [] code \in {\hC9, \hC5, \hD5, \hCD, \hDD, \hD9, \hC1, \hD1} ->
            cmp(s, opcode.mode, s.accumulator)
      [] code \in {\hE0, \hE4, \hEC} -> cmp(s, opcode.mode, s.register_x)
      [] code \in {\hC0, \hC4, \hCC} -> cmp(s, opcode.mode, s.register_y)
      [] code \in {\hC7, \hD7, \hCF, \hDF, \hDB, \hC3, \hD3} ->
            dcp(s, opcode.mode)
      [] code \in {\hC6, \hD6, \hCE, \hDE} -> dec(s, opcode.mode)
      [] code = \hCA -> dex(s)
      [] code = \h88 -> dey(s)
      [] code \in {\h04, \h14, \h34, \h44, \h54, \h64, \h74, \h80, \h82, \h89, \hC2, \hD4, \hE2, \hF4} ->
            s
      [] code \in {\hE7, \hF7, \hEF, \hFF, \hFB, \hE3, \hF3} ->
            isc(s, opcode.mode)
      [] code \in {\h49, \h45, \h55, \h4D, \h5D, \h59, \h41, \h51} ->
            eor(s, opcode.mode)
      [] code \in {\hE6, \hF6, \hEE, \hFE} -> inc(s, opcode.mode)
      [] code = \hE8 -> inx(s)
      [] code = \hC8 -> iny(s)
      [] code = \h4C -> jmp(s)
      [] code = \h6C -> jmp_indirect(s)
      [] code = \h20 -> jsr(s)
      [] code \in {\h02, \h12, \h22, \h32, \h42, \h52, \h62, \h72, \h92, \hB2, \hD2, \hF2} ->
            s
      [] code = \hBB -> lar(s)
      [] code \in {\hA7, \hB7, \hAF, \hBF, \hA3, \hB3} ->
            lax(s, opcode.mode)
      [] code \in {\hA9, \hA5, \hB5, \hAD, \hBD, \hB9, \hA1, \hB1} ->
            lda(s, opcode.mode)
      [] code \in {\hA2, \hA6, \hB6, \hAE, \hBE} -> ldx(s, opcode.mode)
      [] code \in {\hA0, \hA4, \hB4, \hAC, \hBC} -> ldy(s, opcode.mode)
      [] code = \h4A -> lsr_acc(s)
      [] code \in {\h46, \h56, \h4E, \h5E} -> lsr(s, opcode.mode)
      [] code \in {\hEA, \h1A, \h3A, \h5A, \h7A, \hDA, \hFA} -> s
      [] code \in {\h09, \h05, \h15, \h0D, \h1D, \h19, \h01, \h11} ->
            ora(s, opcode.mode)
      [] code = \h48 -> push_stack(s, s.accumulator)
      [] code = \h08 -> php(s)
      [] code = \h68 -> pla(s)
      [] code = \h28 -> plp(s)
      [] code \in {\h27, \h37, \h2F, \h3F, \h3B, \h23, \h33} ->
            rla(s, opcode.mode)
      [] code \in {\h67, \h77, \h6F, \h7F, \h7B, \h63, \h73} ->
            rra(s, opcode.mode)
      [] code = \h2A -> rol_acc(s)
      [] code \in {\h26, \h36, \h2E, \h3E} -> rol(s, opcode.mode)
      [] code = \h6A -> ror_acc(s)
      [] code \in {\h66, \h76, \h6E, \h7E} -> ror(s, opcode.mode)
      [] code = \h40 -> rti(s)
      [] code = \h60 -> rts(s)
      [] code \in {\hEB, \hE9, \hE5, \hF5, \hED, \hFD, \hF9, \hE1, \hF1} ->
            sbc(s, opcode.mode)
      [] code = \h38 -> SetStatus(s, insert(s.status, CARRY))
      [] code = \hF8 -> SetStatus(s, insert(s.status, DEC))
      [] code = \h78 -> SetStatus(s, insert(s.status, INT))
      [] code \in {\h07, \h17, \h0F, \h1F, \h1B, \h03, \h13} ->
            slo(s, opcode.mode)
      [] code \in {\h47, \h57, \h4F, \h5F, \h5B, \h43, \h53} ->
            sre(s, opcode.mode)
      [] code \in {\h85, \h95, \h8D, \h9D, \h99, \h81, \h91} ->
            sta(s, opcode.mode)
      [] code \in {\h86, \h96, \h8E} -> stx(s, opcode.mode)
      [] code \in {\h84, \h94, \h8C} -> sty(s, opcode.mode)
      [] code = \h9E -> sxa(s)
      [] code = \h9C -> sya(s)
      [] code = \hAA -> set_reg_x(s, s.accumulator)
      [] code = \hA8 -> set_reg_y(s, s.accumulator)
      [] code \in {\h0C, \h1C, \h3C, \h5C, \h7C, \hDC, \hFC} -> s
      [] code = \hBA -> set_reg_x(s, s.stack_ptr)
      [] code = \h8A -> set_acc(s, s.register_x)
      [] code = \h9A -> set_stack_ptr(s, s.register_x)
      [] code = \h98 -> set_acc(s, s.register_y)
      [] code = \h8B -> xaa(s)
      [] code = \h9B -> xas(s)

\* an end of iteration that skips the whole length of the opcode once more
advance_by_length(x, code, opcode, program_counter_state) ==
    IF code \in ReturnCodes THEN [x EXCEPT !.phase = "idle"]
    ELSE IF ~Ok(x) THEN x
    ELSE IF program_counter_state = x.program_counter
      THEN SetPC(x, wrapping_add16(x.program_counter, opcode.len))
    ELSE x

\* an end of iteration that leaves the counter just past the opcode byte
advance_past_opcode(x, code, opcode, program_counter_state) ==
    IF code \in ReturnCodes THEN [x EXCEPT !.phase = "idle"] ELSE x

\* the end of an iteration: x is the machine after the instruction, and
\* program_counter_state the counter saved after the fetch
advance(x, code, opcode, program_counter_state) ==
    IF code \in ReturnCodes THEN [x EXCEPT !.phase = "idle"]
    ELSE IF ~Ok(x) THEN x
    ELSE IF program_counter_state = x.program_counter
      THEN IF /\ x.overflow_checks
              /\ Overflows16(x.program_counter, opcode.len - 1)
             THEN Panic(x, "overflow")
             ELSE SetPC(x, wrapping_add16(x.program_counter, opcode.len - 1))
    ELSE x

\* the lookup in OPCODES_MAP and the match on the code; f is the machine
\* after the fetch
decode(f, code) ==
    IF code \notin DOMAIN OPCODES_MAP THEN Panic(f, "opcode")
    ELSE advance(Dispatch(f, code, OPCODES_MAP[code]), code,
                 OPCODES_MAP[code], f.program_counter)

\* callback(self), for a callback that observes the CPU and leaves it as it
\* is: it counts its invocations and keeps the registers it sees
callback(s) ==
    [s EXCEPT !.observed =
        [count |-> @.count + 1,
         seen  |-> <<s.program_counter, s.accumulator, s.register_x,
                     s.register_y, s.stack_ptr, s.status>>]]

\* the fetch of the opcode at program_counter and the rest of the iteration
fetch(s) ==
    IF read_panics(s, s.program_counter) THEN Panic(s, "index")
    ELSE IF s.overflow_checks /\ Overflows16(s.program_counter, 1)
      THEN Panic(s, "overflow")
    ELSE decode(SetPC(s, wrapping_add16(s.program_counter, 1)),
                mem_read(s, s.program_counter))

\* an iteration that fetches before it invokes the callback
iteration_fetching_first(s) ==
    IF read_panics(s, s.program_counter) THEN Panic(s, "index")
    ELSE IF s.overflow_checks /\ Overflows16(s.program_counter, 1)
      THEN Panic(s, "overflow")
    ELSE decode(callback(SetPC(s, wrapping_add16(s.program_counter, 1))),
                mem_read(s, s.program_counter))

\* one iteration of the loop of CPU::run_with_callback
iteration(s) == fetch(callback(s))

\* reset leaving register_x as it was
reset_keeping_x(s) ==
    IF read_panics(s, PRG_REF) \/ read_panics(s, PRG_REF + 1)
      THEN Panic(s, "index")
      ELSE SetPC([s EXCEPT !.accumulator = 0, !.register_y = 0,
                           !.status = \b00100100],
                 mem_read_u16(s, PRG_REF))

\* CPU::reset
reset(s) ==
    LET t == [s EXCEPT !.accumulator = 0, !.register_x = 0, !.register_y = 0,
                       !.status = \b00100100]
    IN  IF read_panics(t, PRG_REF) \/ read_panics(t, PRG_REF + 1)
          THEN Panic(t, "index")
          ELSE SetPC(t, mem_read_u16(t, PRG_REF))

\* CPU::load: the loop writing program[i] at PRG_START + i, from byte i on
RECURSIVE load_bytes(_, _, _)
load_bytes(s, program, i) ==
    IF i >= Len(program) THEN s
    ELSE load_bytes(mem_write(s, PRG_START + i, program[i + 1]), program, i + 1)

\* CPU::load
load(s, program) ==
    mem_write_u16(load_bytes(s, program, 0), PRG_REF, PRG_START)

-----------------------------------------------------------------------------
(* The machine as a record, and its construction *)

Cur ==
    [stack_ptr |-> stack_ptr, accumulator |-> accumulator,
     register_x |-> register_x, register_y |-> register_y,
     status |-> status, program_counter |-> program_counter,
     ram |-> ram, rom |-> rom, overflow_checks |-> overflow_checks,
     fault |-> fault, phase |-> phase, log |-> log, observed |-> observed]

\* the machine t becomes the state (t is evaluated once)
Commit(t) ==
    \E r \in {t} :
        /\ stack_ptr' = r.stack_ptr
        /\ accumulator' = r.accumulator
        /\ register_x' = r.register_x
        /\ register_y' = r.register_y
        /\ status' = r.status
        /\ program_counter' = r.program_counter
        /\ ram' = r.ram
        /\ rom' = r.rom
        /\ overflow_checks' = r.overflow_checks
        /\ fault' = r.fault
        /\ phase' = r.phase
        /\ log' = r.log
        /\ observed' = r.observed

Op(op, addr, data) == [op |-> op, addr |-> addr, data |-> data]

\* CPU::new(Bus::new(rom)) for a cartridge of the set roms
New(roms) ==
    /\ stack_ptr = STACK_START
    /\ accumulator = 0
    /\ register_x = 0
    /\ register_y = 0
    /\ status = \b00100100
    /\ program_counter = PRG_START
    /\ ram = [i \in 0..2047 |-> 0]
    /\ rom \in roms
    /\ overflow_checks \in BOOLEAN
    /\ fault = "none"
    /\ phase = "idle"
    /\ entry_pc = 0
    /\ last = Op("new", 0, 0)
    /\ log = <<>>
    /\ calls = 0
    /\ steps = 0
    /\ observed = [count |-> 0, seen |-> <<>>]

\* RAM holding program from 0x0200 on and fill everywhere else
RamWith(program, fill) ==
    [i \in \h0200..(\h0200 + Len(program) - 1) |-> program[i - \h0200 + 1]]
        @@ [i \in 0..2047 |-> fill]

\* a CPU inside run_with_callback, about to fetch the first opcode of a
\* program of the set programs held in RAM at 0x0200, with its registers one
\* of the records regs and the rest of the RAM filled with a byte of fills
Prepared(programs, regs, fills) ==
    /\ \E r \in regs :
          /\ accumulator = r.a
          /\ register_x = r.x
          /\ register_y = r.y
          /\ stack_ptr = r.sp
          /\ status = r.p
    /\ \E program \in programs, fill \in fills : ram = RamWith(program, fill)
    /\ program_counter = \h0200
    /\ rom = Image(2, PRG_START, <<>>)
    /\ overflow_checks \in BOOLEAN
    /\ fault = "none"
    /\ phase = "running"
    /\ entry_pc = \h0200
    /\ last = Op("run", \h0200, 0)
    /\ log = <<>>
    /\ calls = 1
    /\ steps = 0
    /\ observed = [count |-> 0, seen |-> <<>>]

-----------------------------------------------------------------------------
(* Inputs: cartridges, programs and the addresses and bytes of the calls *)

\* LDA #v; BRK
LdaBrk(v) == <<\hA9, v, \h00>>

LdaValues == {\h05, \h00, \h80}

\* JMP t
JmpTo(target) == <<\h4C, target % 256, target \div 256>>

\* JSR t
JsrTo(target) == <<\h20, target % 256, target \div 256>>

\* JMP (p), with the bytes w at offset 3 on
JmpIndirect(p, w) == <<\h6C, p % 256, p \div 256>> \o w

Targets == {\h8001, \h8003, \h8005, \h0000, \h0123, \hFFFF}

BranchCodes == {\h90, \hB0, \hF0, \h30, \hD0, \h10, \h50, \h70}

BranchOffsets == {\h02, \h7F, \h80, \hFE, \hFF}

KilCodes == {\h02, \h12, \h22, \h32, \h42, \h52, \h62, \h72,
             \h92, \hB2, \hD2, \hF2}

\* programs placed at 0x8000 of a two-bank cartridge
Programs ==
    {LdaBrk(v) : v \in LdaValues}
    \cup {<<\h4C, \h05, \h80, \hA9, \hAA, \hA2, \h11, \h00>>}
                                    \* JMP $8005; LDA #$AA; LDX #$11; BRK
    \cup {JmpTo(target) : target \in Targets}
    \cup {JsrTo(target) : target \in Targets}
    \cup {<<\h20, \h06, \h80, \h00, \h00, \h00, \h60>>}   \* JSR $8006 .. RTS
    \cup {JmpIndirect(\h8003, <<\h09, \h80>>),
          JmpIndirect(\h8003, <<\h01, \h80>>)}
    \cup {<<br, off>> : br \in BranchCodes, off \in BranchOffsets}
    \cup {<<\h38, \hB0, off>> : off \in BranchOffsets}      \* SEC; BCS
    \cup {<<\hA9, \h00, \hF0, off>> : off \in BranchOffsets} \* LDA #0; BEQ
    \cup {<<\hA9, \h80, \h30, off>> : off \in BranchOffsets} \* LDA #$80; BMI
    \cup {<<\h48, \h48, \h00>>,                 \* PHA; PHA; BRK
          <<\hA2, \h10, \h9A, \h00>>,           \* LDX #$10; TXS; BRK
          <<\h08, \h68, \h00>>,                 \* PHP; PLA; BRK
          <<\hA9, \hFF, \h48, \h28, \h00>>,     \* LDA #$FF; PHA; PLP; BRK
          <<\hA9, \h7F, \h85, \h10, \h00>>,     \* LDA #$7F; STA $10; BRK
          <<\hA9, \h7F, \h8D, \h00, \h80>>,     \* LDA #$7F; STA $8000
          <<\hA9, \h7F, \h8D, \h00, \h20>>,     \* LDA #$7F; STA $2000
          <<\hA9, \h7F, \h8D, \h00, \h50>>,     \* LDA #$7F; STA $5000
          <<\hEE, \h00, \h80>>,                 \* INC $8000
          <<\hA2, \hFF, \h9D, \h01, \hFF>>}     \* LDX #$FF; STA $FF01,X
    \cup {<<\hEA, k>> : k \in KilCodes}                   \* NOP; KIL

\* the cartridges of the CPU runs; the reset vectors 0x9000 + k point into
\* the background pattern, where the opcode at 0x9000 + k is (0x10 + k) mod
\* 256, so every opcode is the first one of some run
Roms ==
    {Image(2, PRG_START, p) : p \in Programs}
    \cup {Image(2, \h9000 + k, <<>>) : k \in 0..255}
    \cup {ImageWith(2, PRG_START, JmpIndirect(\h80FF, <<>>),
                    Bytes(\hFF, <<\h34, \h12>>))}
    \cup {Image(1, PRG_START, LdaBrk(\h05)), Image(1, \hC000, LdaBrk(\h05)),
          Image(3, PRG_START, LdaBrk(\h05)),
          Image(2, \h0000, <<>>),
          EmptyImage}

\* the cartridges of the cartridge reads: one, two and three banks, and none
BusRoms ==
    {Image(1, PRG_START, LdaBrk(\h05)), Image(2, PRG_START, LdaBrk(\h05)),
     Image(3, PRG_START, LdaBrk(\h05)), EmptyImage}

\* programs handed to load()
LoadPrograms == <<<<>>, LdaBrk(\h05)>>

\* addresses and bytes of the bus checks: RAM cells and their mirrors, PPU
\* registers, the unmapped range and the cartridge
BusAddrs == {\h0000, \h0800, \h1FFF, \h2000, \h4000, \h8000}
BusData == {\h5A, \hFF}
ProbeAddrs == BusAddrs \cup {\h1800, \h07FF}

-----------------------------------------------------------------------------
(* Actions *)

Alive == fault = "none"

\* cpu.reset()
Reset ==
    /\ Alive /\ phase = "idle" /\ calls < MaxCalls
    /\ Commit(reset(Cur))
    /\ last' = Op("reset", 0, 0)
    /\ calls' = calls + 1
    /\ UNCHANGED <<entry_pc, steps>>

\* cpu.load(program); last.data is the place of the program in LoadPrograms
Load ==
    /\ Alive /\ phase = "idle" /\ calls < MaxCalls
    /\ \E k \in DOMAIN LoadPrograms :
          /\ Commit(load(Cur, LoadPrograms[k]))
          /\ last' = Op("load", PRG_START, k)
    /\ calls' = calls + 1
    /\ UNCHANGED <<entry_pc, steps>>

\* cpu.mem_write(addr, data), for the given addresses and bytes
MemWriteOn(addrs, datas) ==
    /\ Alive /\ phase = "idle" /\ calls < MaxCalls
    /\ \E addr \in addrs, data \in datas :
          /\ Commit(mem_write(Cur, addr, data))
          /\ last' = Op("mem_write", addr, data)
    /\ calls' = calls + 1
    /\ UNCHANGED <<entry_pc, steps>>

\* cpu.mem_read(addr), for the given addresses; last.data is the byte read
MemReadOn(addrs) ==
    /\ Alive /\ phase = "idle"
    /\ \E addr \in addrs :
          IF read_panics(Cur, addr)
            THEN /\ Commit(Panic(Cur, "index"))
                 /\ last' = Op("mem_read", addr, 0)
            ELSE /\ Commit(Cur)
                 /\ last' = Op("mem_read", addr, mem_read(Cur, addr))
    /\ UNCHANGED <<entry_pc, steps, calls>>

\* writes made between calls of the CPU: to RAM, to a mirror and to the
\* cartridge
MemWrite == MemWriteOn({\h0000, \h0801, \h8000}, {\hE8})

\* cpu.run(): entry into run_with_callback
RunBegin ==
    /\ Alive /\ phase = "idle" /\ calls < MaxCalls
    /\ phase' = "running"
    /\ entry_pc' = program_counter
    /\ steps' = 0
    /\ calls' = calls + 1
    /\ last' = Op("run", program_counter, 0)
    /\ observed' = [count |-> 0, seen |-> <<>>]
    /\ UNCHANGED <<stack_ptr, accumulator, register_x, register_y, status,
                   program_counter, ram, rom, overflow_checks, fault, log>>

\* the opcode the next iteration fetches
FetchedCode == mem_read(Cur, program_counter)

\* one iteration of the loop
Step ==
    /\ Alive /\ phase = "running" /\ steps < MaxSteps
    /\ Commit(iteration(Cur))
    /\ last' = Op("step", program_counter,
                  IF read_panics(Cur, program_counter) THEN 0 ELSE FetchedCode)
    /\ steps' = steps + 1
    /\ UNCHANGED <<entry_pc, calls>>

Init == New(Roms)

Next == Reset \/ Load \/ MemWrite \/ RunBegin \/ Step

Spec == Init /\ [][Next]_vars

(* The bus alone: writes and reads through the Mem interface *)

BusWrite == MemWriteOn(BusAddrs, BusData)

BusRead == MemReadOn(ProbeAddrs)

InitBus == New({Image(2, PRG_START, LdaBrk(\h05))})

NextBus == BusWrite \/ BusRead

SpecBus == InitBus /\ [][NextBus]_vars

(* Single instructions run from RAM on chosen registers and operands *)

\* bytes around every boundary of the 8-bit arithmetic
ByteSamples ==
    {\h00, \h01, \h02, \h0F, \h10, \h3F, \h40, \h41,
     \h7E, \h7F, \h80, \h81, \hBF, \hC0, \hFE, \hFF}

\* status bytes: CARRY clear and set, the other flags nearly all clear and
\* nearly all set
StatusSamples == {\h24, \h25, \hFA, \hFB}

\* ADC and SBC, immediate and zero page, the operand of the zero-page forms
\* being the fill byte read at 0x0010; a BRK follows the instruction.  Then
\* ADC #b; PHP; SBC #b; BRK, with register_x holding the accumulator and
\* register_y the CARRY the program starts with
SpecAdd ==
    /\ \/ Prepared({<<code, m>> : code \in {\h69, \hE9}, m \in ByteSamples},
                   [a : ByteSamples, x : {0}, y : {0}, sp : {\hFD},
                    p : StatusSamples],
                   {\h00})
       \/ Prepared({<<code, \h10, \h00>> : code \in {\h65, \hE5}},
                   [a : {\h00, \h7F, \h80, \hFF}, x : {0}, y : {0}, sp : {\hFD},
                    p : {\h24, \hFB}],
                   ByteSamples)
       \/ Prepared({<<\h69, b, \h08, \hE9, b>> : b \in ByteSamples},
                   {[a |-> a, x |-> a, y |-> c, sp |-> \hFD, p |-> \h24 + c] :
                       a \in ByteSamples, c \in {0, 1}},
                   {\h00})
    /\ [][Step]_vars

(* Instructions that set ZERO and NEG from their result, each followed by a
   BRK: LDA with every operand; LDX, LDY, AND, ORA, EOR, ADC and SBC
   immediate; transfers, INX, INY, DEX, DEY and the accumulator shifts and
   rotates with all registers equal; INC, DEC and the shifts and rotates of
   the cell 0x0010, which holds the fill byte; PLA of the fill byte *)

\* status bytes: ZERO, NEG and CARRY in four of their combinations
FlagSamples == {\h24, \h26, \hA5, \hA7}

SpecFlags ==
    /\ \/ Prepared({<<\hA9, r>> : r \in 0..255},
                   [a : {\h55}, x : {0}, y : {0}, sp : {\hFD},
                    p : FlagSamples],
                   {\h00})
       \/ Prepared({<<code, m>> : code \in {\hA2, \hA0}, m \in ByteSamples},
                   [a : {0}, x : {\h55}, y : {\h55}, sp : {\hFD},
                    p : FlagSamples],
                   {\h00})
       \/ Prepared({<<code, m>> : code \in {\h29, \h09, \h49, \h69, \hE9},
                                  m \in ByteSamples},
                   [a : {\h00, \h0F, \h80, \hFF}, x : {0}, y : {0},
                    sp : {\hFD}, p : FlagSamples],
                   {\h00})
       \/ Prepared({<<code>> : code \in {\hAA, \hA8, \h8A, \h98, \hBA, \hE8,
                                         \hC8, \hCA, \h88, \h0A, \h4A, \h2A,
                                         \h6A}},
                   {[a |-> v, x |-> v, y |-> v, sp |-> v, p |-> p] :
                        v \in ByteSamples, p \in FlagSamples},
                   {\h00})
       \/ Prepared({<<code, \h10, \h00>> : code \in {\hE6, \hC6, \h06, \h46,
                                                     \h26, \h66}},
                   [a : {0}, x : {0}, y : {0}, sp : {\hFD}, p : FlagSamples],
                   ByteSamples)
       \/ Prepared({<<\h68, \h00>>},
                   [a : {\h55}, x : {0}, y : {0}, sp : {\hFD},
                    p : FlagSamples],
                   ByteSamples)
    /\ [][Step]_vars

(* CMP, CPX and CPY, immediate, zero page and absolute, and BIT, zero page
   and absolute, each followed by a BRK; the three registers differ and the
   operand of the zero-page and absolute forms is the fill byte at 0x0010 *)

SpecCompare ==
    /\ \/ Prepared({<<code, m>> : code \in {\hC9, \hE0, \hC0},
                                  m \in ByteSamples},
                   {[a |-> r, x |-> (r + 1) % 256, y |-> (r + 2) % 256,
                     sp |-> \hFD, p |-> p] :
                        r \in ByteSamples, p \in {\h24, \hFB}},
                   {\h00})
       \/ Prepared({<<code, \h10, \h00, \h00>> :
                        code \in {\hC5, \hE4, \hC4, \hCD, \hEC, \hCC}},
                   {[a |-> r, x |-> (r + 1) % 256, y |-> (r + 2) % 256,
                     sp |-> \hFD, p |-> p] :
                        r \in {\h00, \h7E, \h7F, \hFF}, p \in {\h24, \hFB}},
                   ByteSamples)
       \/ Prepared({<<code, \h10, \h00, \h00>> : code \in {\h24, \h2C}},
                   [a : ByteSamples, x : {\h55}, y : {\hAA}, sp : {\hFD},
                    p : {\h24, \hFB}],
                   ByteSamples)
    /\ [][Step]_vars

(* The stack functions called on a CPU, fresh or with a stack_ptr that has
   been given any value: a push of a byte or of a word, then the pull of the same width.
   last.addr is the stack_ptr before the push and last.data the value pushed
   or pulled *)

StackBytes == {\h00, \h01, \h80, \hFF}

StackPush ==
    /\ Alive /\ last.op \in {"new", "run"}
    /\ \/ \E hi \in StackBytes, lo \in StackBytes :
             /\ Commit(push_stack_u16(Cur, hi * 256 + lo))
             /\ last' = Op("push_stack_u16", stack_ptr, hi * 256 + lo)
       \/ \E val \in StackBytes :
             /\ Commit(push_stack(Cur, val))
             /\ last' = Op("push_stack", stack_ptr, val)
    /\ UNCHANGED <<entry_pc, calls, steps>>

StackPull ==
    /\ Alive
    /\ \/ /\ last.op = "push_stack_u16"
          /\ Commit(pull_stack_u16(Cur))
          /\ last' = Op("pull_stack_u16", last.addr, pulled_u16(Cur))
       \/ /\ last.op = "push_stack"
          /\ Commit(pull_stack(Cur))
          /\ last' = Op("pull_stack", last.addr, pulled(Cur))
    /\ UNCHANGED <<entry_pc, calls, steps>>

SpecStack ==
    /\ Prepared({<<>>},
                [a : {0}, x : {0}, y : {0}, sp : 0..255, p : {\h24}],
                {\h55})
    /\ [][StackPush \/ StackPull]_vars

\* the same calls on a CPU as CPU::new leaves it
SpecFresh == New(BusRoms) /\ [][StackPush \/ StackPull]_vars

(* Calls and returns, from four stack pointers, register_x holding the
   stack_ptr the program starts with: JSR to a target that holds RTS (the
   fill byte); JSR to PHA; PLA; RTS; and a JSR whose subroutine calls a
   second one.  PHP; PLP from every status, register_y holding the status the
   program starts with, and PLP of every byte, the fill byte.  RTI from
   stack_ptr 0xFC, the three bytes pulled being the fill byte.  JMP ($02FF)
   with the low byte of the target at 0x02FF, 0x6C at 0x0200 and 0x03 at
   0x0300, and JMP ($0210) with the target at 0x0210 and 0x0211 *)

CallTargets == {\h0000, \h0010, \h0201, \h0300, \h07FF, \h0800, \h1FFF}

SpecCall ==
    /\ \/ Prepared({<<\h20, t % 256, t \div 256>> : t \in CallTargets}
                     \cup {<<\h20, \h06, \h02, \h00, \h00, \h00,
                             \h20, \h00, \h03, \h60>>},
                   {[a |-> \h5A, x |-> sp, y |-> 0, sp |-> sp, p |-> \h24] :
                        sp \in {\hFD, \hFF, \h00, \h01}},
                   {\h60})
       \/ Prepared({<<\h20, \h04, \h02, \h00, \h48, \h68, \h60>>},
                   {[a |-> \h5A, x |-> sp, y |-> 0, sp |-> sp, p |-> \h24] :
                        sp \in {\hFD, \hFF, \h00, \h01}},
                   {\h00})
       \/ Prepared({<<\h08, \h28, \h00>>},
                   {[a |-> 0, x |-> sp, y |-> p, sp |-> sp, p |-> p] :
                        sp \in {\hFD, \h00}, p \in 0..255},
                   {\h00})
       \/ Prepared({<<\h28, \h00>>},
                   [a : {0}, x : {\hFD}, y : {\h24}, sp : {\hFD}, p : {\h24}],
                   0..255)
       \/ Prepared({<<\h40>>},
                   [a : {0}, x : {\hFC}, y : {\h24}, sp : {\hFC}, p : {\h24}],
                   {\h00, \h24, \h81, \hFF})
       \/ Prepared({[i \in 1..257 |->
                        IF i = 1 THEN \h6C ELSE IF i = 2 THEN \hFF
                        ELSE IF i = 3 THEN \h02 ELSE IF i = 256 THEN lo
                        ELSE IF i = 257 THEN \h03 ELSE \h00] :
                            lo \in {\h00, \h34, \hFF}}
                     \cup {[i \in 1..18 |->
                        IF i = 1 THEN \h6C ELSE IF i = 2 THEN \h10
                        ELSE IF i = 3 THEN \h02 ELSE IF i = 17 THEN t % 256
                        ELSE IF i = 18 THEN t \div 256 ELSE \h00] :
                            t \in {\h0201, \h0203, \h0300, \h8000}},
                   [a : {0}, x : {0}, y : {0}, sp : {\hFD}, p : {\h24}],
                   {\h00})
    /\ [][Step]_vars

(* The resolver called, as test_get_operand_addr calls it, on a CPU whose
   program_counter addresses the two operand bytes at 0x0200 and whose other
   RAM cells hold bytes that differ from page to page and from cell to cell;
   register_x and register_y differ.  last.op is the mode and last.data the
   address returned *)

ResolverModes ==
    {"ZeroPage", "ZeroPage_X", "ZeroPage_Y", "Absolute", "Absolute_X",
     "Absolute_Y", "Indirect", "Indirect_X", "Indirect_Y"}

Resolve ==
    /\ Alive /\ last.op = "run"
    /\ \E mode \in ResolverModes :
          last' = Op(mode, program_counter,
                     get_non_immediate_addr(Cur, mode, program_counter))
    /\ UNCHANGED <<stack_ptr, accumulator, register_x, register_y, status,
                   program_counter, ram, rom, overflow_checks, fault, phase,
                   entry_pc, log, calls, steps, observed>>

SpecResolve ==
    /\ \E r \in ByteSamples :
          /\ register_x = r /\ register_y = \hFF - r
    /\ \E b1 \in ByteSamples, b2 \in {\h02, \hFF} :
          ram = (\h0200 :> b1 @@ \h0201 :> b2)
                  @@ [i \in 0..2047 |-> (3 * i + 1 + 64 * (i \div 256)) % 256]
    /\ accumulator = 0 /\ stack_ptr = STACK_START /\ status = \b00100100
    /\ program_counter = \h0200
    /\ rom = Image(2, PRG_START, <<>>)
    /\ overflow_checks \in BOOLEAN
    /\ fault = "none" /\ phase = "idle" /\ entry_pc = 0
    /\ last = Op("run", \h0200, 0) /\ log = <<>> /\ calls = 0 /\ steps = 0
    /\ observed = [count |-> 0, seen |-> <<>>]
    /\ [][Resolve]_vars

(* A write to an address of the PPU or unmapped range of a fresh bus, and the
   read of the same address after it *)

IoWrite == last.op = "new" /\ MemWriteOn(PPU_START..(ROM_START - 1), {\h5A})

IoRead == last.op = "mem_write" /\ MemReadOn({last.addr})

SpecIo ==
    New({Image(2, PRG_START, LdaBrk(\h05))}) /\ [][IoWrite \/ IoRead]_vars

(* Reads of a fresh bus at every cartridge address *)

RomRead == last.op = "new" /\ MemReadOn(ROM_START..ROM_END)

SpecRom == New(BusRoms) /\ [][RomRead]_vars

(* ASL, LSR, ROL and ROR on the accumulator and on the zero-page cell 0x0010,
   each followed by a BRK, for every byte v and two status bytes (CARRY set
   with the other flags clear, CARRY clear with them set); v is the
   accumulator, the cell and register_x, the old status is register_y *)

AccShiftCodes == {\h0A, \h4A, \h2A, \h6A}

MemShiftCodes == {\h06, \h46, \h26, \h66}

SpecShift ==
    /\ \E v \in 0..255 :
          Prepared({<<code, \h00>> : code \in AccShiftCodes}
                       \cup {<<code, \h10, \h00>> : code \in MemShiftCodes},
                   {[a |-> v, x |-> v, y |-> p, sp |-> \hFD, p |-> p] :
                        p \in {\h25, \hFA}},
                   {v})
    /\ [][Step]_vars

(* The no-operation opcodes with their operand bytes and the eight branches
   with offsets of both signs, each on two status bytes (every tested flag
   clear, every tested flag set) and followed by BRK bytes *)

NopCodes == {\hEA, \h1A, \h3A, \h5A, \h7A, \hDA, \hFA}

DopCodes ==
    {\h04, \h14, \h34, \h44, \h54, \h64, \h74, \h80, \h82, \h89, \hC2, \hD4,
     \hE2, \hF4}

TopCodes == {\h0C, \h1C, \h3C, \h5C, \h7C, \hDC, \hFC}

SpecFlow ==
    /\ \/ Prepared({<<code>> : code \in NopCodes}
                       \cup {<<code, \h10>> : code \in DopCodes}
                       \cup {<<code, \hF0, \h02>> : code \in TopCodes},
                   [a : {\h5A}, x : {\hA5}, y : {\h3C}, sp : {\hFD, \h00},
                    p : {\h24, \hE7}],
                   {\h00})
       \/ Prepared({<<br, off>> :
                        br \in {\h90, \hB0, \hF0, \h30, \hD0, \h10, \h50,
                                \h70},
                        off \in {\h00, \h01, \h02, \h7F, \h80, \hFD, \hFF}},
                   [a : {\h5A}, x : {\hA5}, y : {\h3C}, sp : {\hFD},
                    p : {\h24, \hE7}],
                   {\h00})
    /\ [][Step]_vars

(* The undocumented fusions on the zero-page cell 0x0010 (DCP, RLA, RRA, SLO,
   SRE, ISC) for 16 x 16 accumulator and cell bytes and three status bytes,
   ARR on every accumulator byte and AAC on 16 x 16 accumulator and operand
   bytes, with CARRY clear and set; each instruction is followed by a BRK *)

FusedCodes == {\hC7, \h27, \h67, \h07, \h47, \hE7}

SpecFused ==
    /\ \/ \E v \in ByteSamples :
             Prepared({<<code, \h10, \h00>> : code \in FusedCodes},
                      [a : ByteSamples, x : {\h11}, y : {\h22}, sp : {\hFD},
                       p : {\h24, \h25, \hE7}],
                      {v})
       \/ Prepared({<<\h6B, m, \h00>> : m \in {\hFF, \h55}},
                   [a : 0..255, x : {\h11}, y : {\h22}, sp : {\hFD},
                    p : {\h24, \hE5}],
                   {\h00})
       \/ Prepared({<<code, m, \h00>> : code \in {\h0B, \h2B},
                                        m \in ByteSamples},
                   [a : ByteSamples, x : {\h11}, y : {\h22}, sp : {\hFD},
                    p : {\h24, \h25}],
                   {\h00})
    /\ [][Step]_vars

(* Rom::new on raw files.  raw is a Vec<u8>: raw[i] of the code (0-based) is *)
(* raw[i + 1] here, and an index or a range that reaches past Len(raw)       *)
(* panics.                                                                    *)

\* the Rom of a header that passed both checks: the two ranges are taken from
\* raw, chr after prg
rom_of(raw, prg_start, prg_size, chr_size) ==
    IF prg_start + prg_size > Len(raw)
      THEN [kind |-> "panic", msg |-> "", rom |-> EmptyImage]
    ELSE IF prg_start + prg_size + chr_size > Len(raw)
      THEN [kind |-> "panic", msg |-> "", rom |-> EmptyImage]
    ELSE [kind |-> "Ok", msg |-> "",
          rom |-> [banks |-> raw[5],
                   patch |-> [i \in 0..(prg_size - 1) |->
                                 raw[prg_start + i + 1]]]]

\* Rom::new(raw)
rom_new(raw) ==
    IF Len(raw) < 4
      THEN [kind |-> "panic", msg |-> "", rom |-> EmptyImage]
    ELSE IF SubSeq(raw, 1, 4) # NES_TAG
      THEN [kind |-> "Err", msg |-> "File is not in correct format.",
            rom |-> EmptyImage]
    ELSE IF Len(raw) < 8
      THEN [kind |-> "panic", msg |-> "", rom |-> EmptyImage]
    ELSE IF (raw[8] \div 4) % 4 # 0
      THEN [kind |-> "Err", msg |-> "iNES version 2.0 is not supported.",
            rom |-> EmptyImage]
    ELSE rom_of(raw, 16 + (IF (raw[7] \div 4) % 2 # 0 THEN 512 ELSE 0),
                raw[5] * PRG_PAGE_SIZE, raw[6] * CHR_PAGE_SIZE)

\* 17-byte files: headers with the tag and each of its bytes spoilt, the flag
\* bytes 6 and 7 and the two sizes varied
Headers ==
    {<<t[1], t[2], t[3], t[4], prg, 0, f6, f7, 0, 0, 0, 0, 0, 0, 0, 0, \hEA>> :
        t \in {NES_TAG, <<0, 0, 0, 0>>, <<\h4F, \h45, \h53, \h1A>>,
                <<\h4E, \h45, \h53, \h1B>>},
        prg \in {0, 1}, f6 \in {\h00, \h04}, f7 \in {\h00, \h08}}

\* the files handed to Rom::new: every prefix of a header, the empty file too
RawFiles == {SubSeq(h, 1, n) : h \in Headers, n \in 0..17}

\* Rom::new(&raw); a Rom that is returned goes into the bus
RomNew ==
    /\ Alive /\ last.op = "new"
    /\ \E raw \in RawFiles :
          /\ last' = [op |-> "Rom::new", addr |-> Len(raw), data |-> raw,
                      result |-> rom_new(raw)]
          /\ fault' = IF rom_new(raw).kind = "panic" THEN "index" ELSE "none"
          /\ rom' = IF rom_new(raw).kind = "Ok" THEN rom_new(raw).rom ELSE rom
    /\ UNCHANGED <<stack_ptr, accumulator, register_x, register_y, status,
                   program_counter, ram, overflow_checks, phase, entry_pc,
                   log, calls, steps, observed>>

SpecFile == New({EmptyImage}) /\ [][RomNew]_vars

-----------------------------------------------------------------------------
(* Properties *)

\* the byte the code reads at addr in the current state
ByteAt(addr) == mem_read(Cur, addr % 65536)

\* the little-endian word at addr in the current state
WordAt(addr) == ByteAt(addr) + 256 * ByteAt(addr + 1)

\* a call returned without a panic
Returned(op) == last.op = op /\ fault = "none"

\* this step is an iteration that completes without a panic
Iterates == phase = "running" /\ steps' = steps + 1 /\ fault' = "none"

\* C1: after reset() the accumulator, register_x and register_y are 0, the
\* status is 0b0010_0100 and the program counter is the little-endian word
\* stored at 0xFFFC/0xFFFD.
C1_ResetState ==
    Returned("reset") =>
        /\ accumulator = 0
        /\ register_x = 0
        /\ register_y = 0
        /\ status = \b00100100
        /\ program_counter = WordAt(\hFFFC)

\* a reset after the run of LDX #$10; TXS; BRK, which left register_x at 0x10
C1_Witness ==
    /\ Returned("reset")
    /\ rom = Image(2, PRG_START, <<\hA2, \h10, \h9A, \h00>>)
    /\ stack_ptr = \h10
    /\ register_x = 0
    /\ program_counter = \h8000

\* C2: after reset() the stack pointer is 0xFD, whatever it was before.
C2_ResetStackPtr == Returned("reset") => stack_ptr = \hFD

\* C3: after load(program) on the bus, the byte read at 0x8000 + i is
\* program[i] for every i, and the word at 0xFFFC is 0x8000.
C3_LoadPlacesProgram ==
    last.op = "load" =>
        /\ fault = "none"
        /\ \A i \in DOMAIN LoadPrograms[last.data] :
              ByteAt(\h8000 + i - 1) = LoadPrograms[last.data][i]
        /\ WordAt(\hFFFC) = \h8000

\* C4: an iteration leaves run_with_callback exactly when the opcode it
\* fetched is BRK (0x00) or one of the twelve KIL opcodes; after every other
\* opcode the loop goes on to another iteration.
C4_ReturnsOnlyOnBrkOrKil ==
    [][Iterates => (phase' = "idle" <=> FetchedCode \in {\h00} \cup KilCodes)]_vars

\* NOP; KIL 0x12: the first iteration went on, the second returned
C4_Witness ==
    /\ Returned("step")
    /\ last.data = \h12
    /\ steps = 2
    /\ phase = "idle"

\* the flag f is set in the status
flag(f) == contains(status, f)

\* the iteration that fetches BRK
C5_BrkStep ==
    (Iterates /\ FetchedCode = \h00) =>
        /\ status' = BitOr(status, \b00010000)
        /\ program_counter' = (program_counter + 1) % 65536
        /\ stack_ptr' = stack_ptr
        /\ ram' = ram
        /\ log' = log
        /\ <<accumulator, register_x, register_y>>' =
                <<accumulator, register_x, register_y>>

\* the end of the run of LDA #v; BRK entered at 0x8000
C5_LdaBrkRun ==
    \A v \in LdaValues :
        (/\ rom = Image(2, PRG_START, LdaBrk(v))
         /\ Returned("step") /\ phase = "idle" /\ entry_pc = \h8000)
        => /\ accumulator = v
           /\ flag(ZERO) <=> v = 0
           /\ flag(NEG) <=> v >= 128
           /\ flag(BRK)
           /\ program_counter = \h8003

\* C5: the iteration that fetches BRK at b sets the BREAK flag, leaves the
\* counter at b + 1 and changes nothing else (nothing is pushed); and the run
\* of LDA #v; BRK entered at 0x8000 ends with the accumulator v, ZERO set
\* exactly when v = 0, NEGATIVE set exactly when bit 7 of v is set, BREAK set
\* and the counter at 0x8003.
C5_BrkHalt == []C5_LdaBrkRun /\ [][C5_BrkStep]_vars

\* LDA #$80; BRK has run to its end from 0x8000
C5_Witness ==
    /\ rom = Image(2, PRG_START, LdaBrk(\h80))
    /\ Returned("step") /\ phase = "idle" /\ entry_pc = \h8000
    /\ accumulator = \h80
    /\ flag(NEG) /\ flag(BRK) /\ ~flag(ZERO)
    /\ stack_ptr = \hFD


\* the condition of the branch opcode code, read from the status
BranchTaken(code) ==
    CASE code = \h90 -> ~flag(CARRY)
      [] code = \hB0 -> flag(CARRY)
      [] code = \hF0 -> flag(ZERO)
      [] code = \h30 -> flag(NEG)
      [] code = \hD0 -> ~flag(ZERO)
      [] code = \h10 -> ~flag(NEG)
      [] code = \h50 -> ~flag(OVER)
      [] code = \h70 -> flag(OVER)
      [] OTHER -> FALSE

\* the operand word of the instruction about to run
OperandWord == WordAt(program_counter + 1)

\* the target JMP (p) resolves, the high byte read without leaving p's page
\* when p ends in 0xFF
IndirectTarget ==
    IF OperandWord % 256 = 255
      THEN ByteAt(OperandWord) + 256 * ByteAt(OperandWord - 255)
      ELSE WordAt(OperandWord)

\* the target of the branch about to run: the address after the instruction
\* plus the signed offset
BranchTarget ==
    (program_counter + 2 + SignExtend(ByteAt(program_counter + 1))) % 65536

\* C6: when an iteration runs JMP absolute, JMP indirect, JSR or a taken
\* branch, the program counter at the end of the iteration is the resolved
\* target, whatever the target: the loop adds no instruction length on top.
C6_JumpLandsOnTarget ==
    [][Iterates =>
        /\ FetchedCode \in {\h4C, \h20} => program_counter' = OperandWord
        /\ FetchedCode = \h6C => program_counter' = IndirectTarget
        /\ (FetchedCode \in BranchCodes /\ BranchTaken(FetchedCode))
              => program_counter' = BranchTarget]_vars

\* every code of 0..255 has exactly one row in the table
OneRowPerCode ==
    \A code \in 0..255 :
        Cardinality({i \in DOMAIN OPCODES : OPCODES[i].code = code}) = 1

\* C7: the opcode table has exactly one entry for each of the 256 byte
\* values, so the lookup of a fetched opcode always succeeds and the
\* 'OpCode is not recognized' failure never happens.
C7_EveryOpcodeRecognized ==
    /\ OneRowPerCode
    /\ DOMAIN OPCODES_MAP = 0..255
    /\ fault # "opcode"

\* the unofficial opcode 0xFF (ISC absolute,X) was fetched and ran
C7_Witness ==
    /\ Returned("step")
    /\ last.data = \hFF
    /\ last.addr = \h90EF
    /\ program_counter = \h90F2


\* the writes of the log made to an address of 0..0x1FFF whose low eleven
\* bits are those of a
WritesToCell(a) ==
    {i \in DOMAIN log : log[i][1] <= \h1FFF /\ log[i][1] % 2048 = a % 2048}

\* the byte of the most recent of them, or 0 when there is none
LastWritten(a) ==
    IF WritesToCell(a) = {} THEN 0
    ELSE log[CHOOSE i \in WritesToCell(a) :
                \A j \in WritesToCell(a) : j <= i][2]

\* C8: a read at an address a of 0..0x1FFF returns the byte of the most
\* recent write to any address of 0..0x1FFF with the same low 11 bits as a,
\* or 0 if there was none; writes outside 0..0x1FFF do not change what these
\* reads return.
C8_RamMirrors ==
    (Returned("mem_read") /\ last.addr <= \h1FFF)
        => last.data = LastWritten(last.addr)

\* 0xFF written at 0x0000, then 0x5A at its mirror 0x0800, read back at 0x1800
C8_Witness ==
    /\ Returned("mem_read")
    /\ log = <<<<\h0000, \hFF>>, <<\h0800, \h5A>>>>
    /\ last.addr = \h1800
    /\ last.data = \h5A

\* C9: a read at a of 0x8000..0xFFFF returns prg[a - 0x8000] when the
\* cartridge holds 32 KB of PRG, and prg[(a - 0x8000) mod 0x4000] when it
\* holds exactly 16 KB.
C9_CartridgeRead ==
    (last.op = "mem_read" /\ last.addr >= \h8000) =>
        /\ prg_len(rom) = 32768 =>
              /\ fault = "none"
              /\ last.data = prg_at(rom, last.addr - 32768)
        /\ prg_len(rom) = 16384 =>
              /\ fault = "none"
              /\ last.data = prg_at(rom, (last.addr - 32768) % 16384)

\* the operand of LDA #$05 at offset 1 of a 16 KB cartridge, read at 0xC001
C9_Witness ==
    /\ Returned("mem_read")
    /\ prg_len(rom) = 16384
    /\ last.addr = \hC001
    /\ last.data = \h05

\* every attempted write to the cartridge range is the last write and left
\* the machine failed
RomWritesFail ==
    \A i \in DOMAIN log :
        log[i][1] >= \h8000 => (i = Len(log) /\ fault = "rom_write")

\* the step that fails on a cartridge write leaves RAM and cartridge alone
FailedWriteChangesNothing ==
    (fault = "none" /\ fault' = "rom_write") => (ram' = ram /\ rom' = rom)

IoRange == \h2000..\h7FFF

\* a read in the range returns 0 and does not fail
IoReadsZero ==
    (last.op = "mem_read" /\ last.addr \in IoRange)
        => (fault = "none" /\ last.data = 0)

\* a write in the range does not fail and changes neither RAM nor cartridge
IoWriteIsNoOp ==
    (last'.op = "mem_write" /\ last'.addr \in IoRange)
        => (fault' = "none" /\ ram' = ram /\ rom' = rom)

C12_ReadNeverFails ==
    last.op = "mem_read" => (fault = "none" /\ last.data \in 0..255)

\* bit k of a byte as a truth value
Bit(v, k) == (v \div (2^k)) % 2 = 1

\* the operand of the immediate or zero-page instruction about to be executed
NextOperand(immediates) ==
    IF FetchedCode \in immediates
      THEN ByteAt(program_counter + 1)
      ELSE ByteAt(ByteAt(program_counter + 1))

\* the accumulator and the flags after adding m and the CARRY to the
\* accumulator: INT, DEC, BRK and BRK2 (bits 2 to 5) stay
AddsWithCarry(m) ==
    /\ accumulator' = (accumulator + m + (status % 2)) % 256
    /\ Bit(status', 0) <=> (accumulator + m + (status % 2) > \hFF)
    /\ Bit(status', 6) <=> /\ Bit(m, 7) # Bit(accumulator', 7)
                           /\ Bit(accumulator, 7) # Bit(accumulator', 7)
    /\ (status' \div 4) % 16 = (status \div 4) % 16

\* C14: ADC with accumulator a, operand m and carry-in c leaves
\* (a + m + c) mod 256 in the accumulator, sets CARRY iff a + m + c > 0xFF and
\* OVERFLOW iff ((m XOR result) AND (a XOR result) AND 0x80) is not 0, and
\* changes no flag other than CARRY, ZERO, OVERFLOW and NEGATIVE.
C14_AdcArithmetic ==
    [][(Iterates /\ FetchedCode \in {\h69, \h65})
            => AddsWithCarry(NextOperand({\h69}))]_vars

\* ADC #$80 on accumulator 0x80: 0x00 with CARRY, OVERFLOW and ZERO set
C14_Witness ==
    /\ last = Op("step", \h0200, \h69)
    /\ fault = "none"
    /\ ram[\h0201] = \h80
    /\ accumulator = \h00
    /\ flag(CARRY) /\ flag(OVER) /\ flag(ZERO) /\ ~flag(NEG)

\* C15: SBC with operand m gives the accumulator and the flags ADC gives
\* with operand (m XOR 0xFF), i.e. 255 - m, from the same state; accumulator
\* 0x80, operand 0x01 and CARRY set give 0x7F with OVERFLOW and CARRY set.
C15_SbcIsAdcOfComplement ==
    [][(Iterates /\ FetchedCode \in {\hE9, \hE5})
            => AddsWithCarry(\hFF - NextOperand({\hE9}))]_vars

\* SBC #$01 on accumulator 0x80 with CARRY set: 0x7F, OVERFLOW and CARRY set
C15_Witness ==
    /\ last = Op("step", \h0200, \hE9)
    /\ fault = "none"
    /\ ram[\h0201] = \h01
    /\ accumulator = \h7F
    /\ flag(CARRY) /\ flag(OVER) /\ ~flag(ZERO) /\ ~flag(NEG)
    /\ status = \h65

\* ADC #b; PHP; SBC #b has run from accumulator register_x and CARRY
\* register_y; the status the ADC left is the byte PHP stored at 0x01FD
RoundTripDone ==
    /\ last = Op("step", \h0203, \hE9)
    /\ fault = "none"
    /\ ram[\h0200] = \h69 /\ ram[\h0202] = \h08
    /\ ram[\h0201] = ram[\h0204]

AdcStatus == ram[\h01FD]

\* C16: ADC with operand b from accumulator a and then SBC with operand b
\* using the CARRY left by the ADC restores the accumulator to a whenever the
\* ADC did not set OVERFLOW.
C16_RoundTripWithoutOverflow ==
    (RoundTripDone /\ ~Bit(AdcStatus, 6)) => accumulator = register_x

\* C16 as the code has it: the round trip leaves a + carry_in + carry_out - 1
\* (mod 256), so it restores a exactly when the CARRY left by the ADC differs
\* from carry_in, whatever OVERFLOW the ADC left.
C16_RoundTripRestoresIffCarryFlips ==
    RoundTripDone =>
        /\ accumulator = (register_x + register_y + (AdcStatus % 2) + 255) % 256
        /\ (accumulator = register_x) <=> (AdcStatus % 2 # register_y)

\* 0xFF + 0x01 with CARRY clear: 0x00 with CARRY set and OVERFLOW clear, and
\* the SBC gives 0xFF back
C16_Witness ==
    /\ RoundTripDone
    /\ register_x = \hFF /\ register_y = 0 /\ ram[\h0201] = \h01
    /\ AdcStatus % 2 = 1 /\ ~Bit(AdcStatus, 6)
    /\ accumulator = \hFF

\* the byte an instruction of SpecFlags leaves as its result: the
\* accumulator, register_x, register_y or the zero-page cell it addresses
AccResults ==
    {\hA9, \h29, \h09, \h49, \h69, \hE9, \h8A, \h98, \h0A, \h4A, \h2A, \h6A,
     \h68}

XResults == {\hA2, \hAA, \hBA, \hE8, \hCA}

YResults == {\hA0, \hA8, \hC8, \h88}

CellResults == {\hE6, \hC6, \h06, \h46, \h26, \h66}

\* ZERO and NEG after the step are those of the byte r
FlagsFollow(r) ==
    /\ Bit(status', 1) <=> (r = 0)
    /\ Bit(status', 7) <=> Bit(r, 7)

\* C13: after every instruction that updates ZERO and NEGATIVE from an 8-bit
\* result r (loads, transfers except TXS, AND/ORA/EOR, INC/DEC/INX/INY/DEX/
\* DEY, shifts and rotates, ADC/SBC, PLA), ZERO is set iff r = 0 and NEGATIVE
\* iff bit 7 of r is 1, for all 256 values of r and whatever the two flags
\* held before.
C13_ZeroAndNegFollowResult ==
    [][Iterates =>
        /\ FetchedCode \in AccResults => FlagsFollow(accumulator')
        /\ FetchedCode \in XResults => FlagsFollow(register_x')
        /\ FetchedCode \in YResults => FlagsFollow(register_y')
        /\ FetchedCode \in CellResults
              => FlagsFollow(ram'[ByteAt(program_counter + 1)])
        /\ FetchedCode = \hA9 => accumulator' = ByteAt(program_counter + 1)]_vars

\* DEC of the cell 0x0010 holding 0x01, with ZERO clear and NEG set before:
\* the cell holds 0x00, ZERO is set and NEG is clear
C13_Witness ==
    /\ last = Op("step", \h0200, \hC6)
    /\ fault = "none"
    /\ ram[\h0010] = \h00
    /\ status = \h27

\* the register CMP, CPX or CPY compares
ComparedRegister ==
    IF FetchedCode \in {\hC9, \hC5, \hCD} THEN accumulator
    ELSE IF FetchedCode \in {\hE0, \hE4, \hEC} THEN register_x
    ELSE register_y

\* the operand of the immediate, zero-page or absolute compare or BIT
ComparedOperand ==
    IF FetchedCode \in {\hC9, \hE0, \hC0} THEN ByteAt(program_counter + 1)
    ELSE IF FetchedCode \in {\hC5, \hE4, \hC4, \h24}
      THEN ByteAt(ByteAt(program_counter + 1))
    ELSE ByteAt(WordAt(program_counter + 1))

\* registers, stack pointer and memory stay, and nothing is written
RegistersAndMemoryStay ==
    /\ accumulator' = accumulator
    /\ register_x' = register_x
    /\ register_y' = register_y
    /\ stack_ptr' = stack_ptr
    /\ ram' = ram /\ rom' = rom /\ log' = log

Compares(r, m) ==
    /\ Bit(status', 0) <=> (r >= m)
    /\ Bit(status', 1) <=> (r = m)
    /\ Bit(status', 7) <=> Bit((r - m + 256) % 256, 7)
    /\ (status' \div 4) % 32 = (status \div 4) % 32
    /\ RegistersAndMemoryStay

NoCommonBit(m) ==
    \A k \in 0..7 : ~(Bit(accumulator, k) /\ Bit(m, k))

TestsBits(m) ==
    /\ Bit(status', 1) <=> NoCommonBit(m)
    /\ Bit(status', 7) <=> Bit(m, 7)
    /\ Bit(status', 6) <=> Bit(m, 6)
    /\ status' % 2 = status % 2
    /\ (status' \div 4) % 16 = (status \div 4) % 16
    /\ RegistersAndMemoryStay

\* C18: after BIT, ZERO is set iff (accumulator AND operand) = 0, NEGATIVE is
\* bit 7 of the operand and OVERFLOW bit 6 of the operand (not of the AND
\* result), and the accumulator, memory, CARRY and all other state are
\* unchanged.
C18_Bit ==
    [][(Iterates /\ FetchedCode \in {\h24, \h2C})
            => TestsBits(ComparedOperand)]_vars

\* BIT $10 with accumulator 0x0F on the operand 0xC0: the AND is 0, so ZERO
\* is set, and NEG and OVERFLOW are set from the operand
C18_Witness ==
    /\ last = Op("step", \h0200, \h24)
    /\ fault = "none"
    /\ accumulator = \h0F /\ ram[\h0010] = \hC0
    /\ status = \hE6

\* C19: for every 16-bit x and every starting stack_ptr, the values at which
\* the pointer wraps past 0x00 or 0xFF included, push_stack_u16(x) followed
\* by pull_stack_u16() returns x and leaves stack_ptr at its starting value;
\* likewise push_stack(v) then pull_stack() returns v.
C19_StackRoundTrip ==
    [][(last'.op \in {"pull_stack_u16", "pull_stack"})
            => (fault' = "none" /\ last'.data = last.data
                                /\ stack_ptr' = last.addr)]_vars

\* 0x80FF pushed from stack_ptr 0x00: the high byte at 0x0100, the low byte
\* at 0x01FF, and the pull has returned the word and the pointer
C19_Witness ==
    /\ last = Op("pull_stack_u16", \h00, \h80FF)
    /\ stack_ptr = \h00
    /\ ram[\h0100] = \h80 /\ ram[\h01FF] = \hFF
    /\ log = <<<<\h0100, \h80>>, <<\h01FF, \hFF>>>>

\* C20: on a freshly constructed CPU the first byte pushed is stored at
\* 0x01FF and stack_ptr becomes 0xFE; a first 16-bit push (the return address
\* pushed by JSR included) stores its high byte at 0x01FF and its low byte at
\* 0x01FE and leaves stack_ptr at 0xFD.
C20_FirstPushAtTopOfStack ==
    /\ last.op = "push_stack"
          => (log = <<<<\h01FF, last.data>>>> /\ stack_ptr = \hFE)
    /\ last.op = "push_stack_u16"
          => /\ log = <<<<\h01FF, last.data \div 256>>,
                        <<\h01FE, last.data % 256>>>>
             /\ stack_ptr = \hFD

\* the cell of the stack page at offset k from the stack pointer
StackCell(k) == \h0100 + ((stack_ptr + k + 256) % 256)

\* JSR at A pushes A + 2, high byte first
JsrPushesReturnAddress ==
    (Iterates /\ FetchedCode = \h20) =>
        /\ log' = log \o <<<<StackCell(0), ((program_counter + 2) \div 256) % 256>>,
                           <<StackCell(-1), (program_counter + 2) % 256>>>>
        /\ stack_ptr' = (stack_ptr + 254) % 256

\* RTS pulls the low byte, then the high byte, and adds 1
RtsPullsAndAddsOne ==
    (Iterates /\ FetchedCode = \h60) =>
        /\ program_counter' =
              (ram[StackCell(1)] + 256 * ram[StackCell(2)] + 1) % 65536
        /\ stack_ptr' = (stack_ptr + 2) % 256

\* an RTS has run and left the stack as it was k bytes below the start
ReturnedAt(k) ==
    /\ last.op = "step" /\ last.data = \h60 /\ fault = "none"
    /\ ram[\h0200] = \h20
    /\ stack_ptr = (register_x + 256 - k) % 256

\* the RTS that matches the JSR at 0x0200 returns to 0x0203, and the RTS at
\* 0x0300 that matches the inner JSR at 0x0206 returns to 0x0209
ReturnsPastJsr ==
    /\ ReturnedAt(0) => program_counter = \h0203
    /\ (ReturnedAt(2) /\ last.addr = \h0300) => program_counter = \h0209

\* C21: when the loop executes a JSR located at A, with any target, and later
\* the matching RTS with the stack balanced in between, program_counter after
\* the RTS is A + 3; JSR pushes A + 2 high byte first then low byte, and RTS
\* pops low then high and adds 1.
C21_JsrRtsRoundTrip ==
    []ReturnsPastJsr /\ [][JsrPushesReturnAddress /\ RtsPullsAndAddsOne]_vars

\* JSR $0204; PHA; PLA; RTS from stack_ptr 0x00: the return address 0x0202 is
\* at 0x0100 and 0x01FF and the RTS has returned to 0x0203
C21_Witness ==
    /\ ReturnedAt(0)
    /\ last.addr = \h0206
    /\ register_x = \h00
    /\ log = <<<<\h0100, \h02>>, <<\h01FF, \h02>>, <<\h01FE, \h5A>>>>
    /\ program_counter = \h0203

\* the byte b with BREAK (bit 4) and BREAK2 (bit 5) replaced by b4 and b5
Forced(b, b4, b5) ==
    b - (IF Bit(b, 4) THEN 16 ELSE 0) - (IF Bit(b, 5) THEN 32 ELSE 0)
      + b4 * 16 + b5 * 32

\* PHP pushes the status with BREAK and BREAK2 set and keeps the live status
PhpPushesForcedCopy ==
    (Iterates /\ FetchedCode = \h08) =>
        /\ log' = Append(log, <<StackCell(0), Forced(status, 1, 1)>>)
        /\ status' = status
        /\ stack_ptr' = (stack_ptr + 255) % 256

\* PLP takes the pulled byte with BREAK cleared and BREAK2 set
PlpPullsForced ==
    (Iterates /\ FetchedCode = \h28) =>
        /\ status' = Forced(ram[StackCell(1)], 0, 1)
        /\ stack_ptr' = (stack_ptr + 1) % 256

\* PHP; PLP has run from status register_y and stack_ptr register_x
PhpPlpDone ==
    /\ last = Op("step", \h0201, \h28) /\ fault = "none"
    /\ ram[\h0200] = \h08

PhpPlpRestores ==
    (PhpPlpDone /\ ~Bit(register_y, 4) /\ Bit(register_y, 5))
        => (status = register_y /\ stack_ptr = register_x)

\* C22: PHP pushes the status byte with BREAK and BREAK2 forced to 1 and
\* leaves the live status unchanged; PLP sets the live status to the pulled
\* byte with BREAK cleared and BREAK2 set; hence PHP immediately followed by
\* PLP from any state with BREAK clear and BREAK2 set restores status and
\* stack_ptr exactly.
C22_PhpPlp ==
    []PhpPlpRestores /\ [][PhpPushesForcedCopy /\ PlpPullsForced]_vars

\* PHP; PLP from status 0xE5 and stack_ptr 0x00: 0xF5 was pushed at 0x0100
\* and status and stack_ptr are back
C22_Witness ==
    /\ PhpPlpDone
    /\ register_y = \hE5 /\ register_x = \h00
    /\ log = <<<<\h0100, \hF5>>>>
    /\ status = \hE5 /\ stack_ptr = \h00

\* C23: RTI sets the status register to exactly the byte pulled from the
\* stack, with no forcing of the BREAK or BREAK2 bits, and then sets
\* program_counter to the next two pulled bytes (low then high) without
\* adding 1; pulling the byte CARRY|NEG leaves status equal to CARRY|NEG.
C23_RtiRestoresStatus ==
    (last = Op("step", \h0200, \h40) /\ fault = "none") =>
        /\ status = ram[\h01FD]
        /\ program_counter = ram[\h01FE] + 256 * ram[\h01FF]
        /\ stack_ptr = \hFF

\* C24: JMP indirect (0x6C) executed by the loop: for a pointer p whose low
\* byte is 0xFF the new program_counter has its low byte read from p and its
\* high byte read from (p AND 0xFF00), not from p + 1; for every other p it
\* is the little-endian word at p and p + 1.
C24_JmpIndirectTarget ==
    [][(Iterates /\ FetchedCode = \h6C) =>
            program_counter' =
                IF OperandWord % 256 = \hFF
                  THEN ByteAt(OperandWord)
                         + 256 * ByteAt((OperandWord \div 256) * 256)
                  ELSE ByteAt(OperandWord) + 256 * ByteAt(OperandWord + 1)]_vars

\* the operand byte, the operand word and the page-zero word at k (mod 256)
\* of the resolver calls
FirstOperand == ram[\h0200]

BothOperands == ram[\h0200] + 256 * ram[\h0201]

PageZeroWord(k) == ram[k % 256] + 256 * ram[(k + 1) % 256]

\* C25: the addressing-mode resolver wraps and never fails: ZeroPage_X and
\* ZeroPage_Y return (operand + X/Y) mod 256 (base 0x01 with X = 0xFF gives
\* 0x0000), Absolute_X and Absolute_Y return (word + X/Y) mod 65536,
\* Indirect_X reads both pointer bytes from page zero at (operand + X) mod 256
\* and (operand + X + 1) mod 256, and Indirect_Y reads its pointer from
\* operand and (operand + 1) mod 256 and then adds Y mod 65536.
C25_ResolverWraps ==
    /\ last.op \in ResolverModes => fault = "none"
    /\ last.op = "ZeroPage_X" => last.data = (FirstOperand + register_x) % 256
    /\ last.op = "ZeroPage_Y" => last.data = (FirstOperand + register_y) % 256
    /\ last.op = "Absolute_X"
          => last.data = (BothOperands + register_x) % 65536
    /\ last.op = "Absolute_Y"
          => last.data = (BothOperands + register_y) % 65536
    /\ last.op = "Indirect_X"
          => last.data = PageZeroWord(FirstOperand + register_x)
    /\ last.op = "Indirect_Y"
          => last.data = (PageZeroWord(FirstOperand) + register_y) % 65536

\* Indirect_X with operand 0x01 and X = 0xFE: the pointer is read at 0x00FF
\* and 0x0000, which hold 0xFE and 0x01
C25_Witness ==
    /\ last.op = "Indirect_X"
    /\ FirstOperand = \h01 /\ register_x = \hFE
    /\ ram[\h00FF] = \hFE /\ ram[\h0000] = \h01 /\ ram[\h0100] = \h41
    /\ last.data = \h01FE

\* the last iteration ended in its opcode fetch: the cartridge holds no byte at
\* the address (the callback of that iteration had already been invoked)
FetchFailed ==
    last.op = "step" /\ fault = "index" /\ read_panics(Cur, last.addr)

\* the opcodes the current run has fetched
OpcodesFetched == IF FetchFailed THEN steps - 1 ELSE steps

\* one callback per opcode fetched, and one more before a fetch that failed
CallbackPerFetch ==
    observed.count = OpcodesFetched + (IF FetchFailed THEN 1 ELSE 0)

\* the callback of this iteration saw the registers the iteration before it
\* had left, with program_counter still at the opcode about to be fetched
CallbackSawStateBeforeFetch ==
    /\ observed'.count = observed.count + 1
    /\ observed'.seen = <<program_counter, accumulator, register_x,
                          register_y, stack_ptr, status>>
    /\ last'.addr = program_counter

Tagged == Len(last.data) >= 4 /\ SubSeq(last.data, 1, 4) = NES_TAG

\* C27: Rom::new returns Err("File is not in correct format.") without a
\* panic for every file whose first four bytes are not the NES tag and for
\* every file that carries the tag and is shorter than the 16-byte header.
C27_MalformedFileIsErr ==
    (last.op = "Rom::new"
        /\ Len(last.data) >= 4
        /\ (~Tagged \/ Len(last.data) < 16))
    => /\ fault = "none"
       /\ last.result.kind = "Err"
       /\ last.result.msg = "File is not in correct format."

\* the instructions that assign program_counter: the jumps, the call, the
\* returns and a branch whose condition holds
SetsCounter(code) ==
    code \in {\h4C, \h6C, \h20, \h60, \h40} \/ BranchTaken(code)

\* C28: an iteration whose instruction does not assign program_counter (a
\* branch whose condition is false included) ends with program_counter at the
\* opcode's address plus the length the opcode table records for the opcode.
C28_CounterAdvancesByTableLength ==
    [][(Iterates /\ ~SetsCounter(FetchedCode))
        => program_counter' =
              (program_counter + OPCODES_MAP[FetchedCode].len) % 65536]_vars

\* BCS with CARRY clear was the first instruction of a run and the counter is
\* two past it; so is a three-byte instruction, three past it
C28_Witness ==
    /\ fault = "none" /\ last.op = "step" /\ steps = 1
    /\ \/ last.data = \hB0 /\ ~Bit(status, 0)
          /\ program_counter = last.addr + 2
       \/ last.data = \hAD /\ program_counter = last.addr + 3

\* the length the claim gives for an addressing mode: the opcode and the
\* operand bytes the mode reads
ModeLength(mode) ==
    CASE mode \in {"Immediate", "ZeroPage", "ZeroPage_X", "ZeroPage_Y",
                   "Indirect_X", "Indirect_Y"} -> 2
      [] mode \in {"Absolute", "Absolute_X", "Absolute_Y", "Indirect"} -> 3
      [] OTHER -> 0

\* C29: every entry of the opcode table with an operand addressing mode has
\* length 2 (Immediate, ZeroPage, ZeroPage_X, ZeroPage_Y, Indirect_X,
\* Indirect_Y) or 3 (Absolute, Absolute_X, Absolute_Y, Indirect), and an
\* iteration skips exactly the operand bytes its instruction read.
C29_LengthMatchesMode ==
    /\ \A i \in DOMAIN OPCODES :
          ModeLength(OPCODES[i].mode) # 0
              => OPCODES[i].len = ModeLength(OPCODES[i].mode)
    /\ (fault = "none" /\ last.op = "step" /\ last.data \in {\hEC, \hCC})
          => program_counter = (last.addr + 3) % 65536

\* the byte a shift or rotate has just written: the accumulator or the cell
ShiftResult ==
    IF last.data \in AccShiftCodes THEN accumulator ELSE ram[\h0010]

\* the byte the claim gives for opcode code, input v and old CARRY c (0 or 1)
ShiftedByte(code, v, c) ==
    CASE code \in {\h0A, \h06} -> (v * 2) % 256
      [] code \in {\h4A, \h46} -> v \div 2
      [] code \in {\h2A, \h26} -> ((v * 2) % 256) + c
      [] code \in {\h6A, \h66} -> (v \div 2) + (c * 128)

\* the bit the opcode shifts out of v: bit 7 to the left, bit 0 to the right
ShiftedOut(code, v) ==
    IF code \in {\h0A, \h06, \h2A, \h26} THEN v >= 128 ELSE v % 2 = 1

\* C30: ASL gives (v << 1) mod 256, LSR v >> 1, ROL ((v << 1) mod 256) OR c
\* and ROR (v >> 1) OR (c << 7), on the accumulator and in memory alike, for
\* every byte v and old CARRY c; then CARRY is the bit shifted out, ZERO and
\* NEGATIVE reflect the result, and OVERFLOW, DECIMAL and INTERRUPT-DISABLE
\* are as before.
C30_ShiftsAndRotates ==
    (last.op = "step" /\ last.data \in AccShiftCodes \cup MemShiftCodes)
    => /\ fault = "none"
       /\ ShiftResult = ShiftedByte(last.data, register_x, register_y % 2)
       /\ Bit(status, 0) = ShiftedOut(last.data, register_x)
       /\ Bit(status, 1) = (ShiftResult = 0)
       /\ Bit(status, 7) = (ShiftResult >= 128)
       /\ \A k \in {2, 3, 6} : Bit(status, k) = Bit(register_y, k)

\* ROR of the cell 0x0010 holding 0x01 with CARRY set: the cell is 0x80, CARRY
\* stays set, NEGATIVE is set and the accumulator is untouched
C30_Witness ==
    /\ fault = "none" /\ last.op = "step" /\ last.data = \h66
    /\ register_x = \h01 /\ Bit(register_y, 0)
    /\ ram[\h0010] = \h80 /\ accumulator = \h01
    /\ Bit(status, 0) /\ Bit(status, 7) /\ ~Bit(status, 1)

\* the opcodes of INX, INY, DEX, DEY and of INC and DEC on a zero-page cell
CountCodes == {\hE8, \hC8, \hCA, \h88, \hE6, \hC6}

\* the byte the opcode about to run counts: register_x, register_y or the cell
Counted(code) ==
    CASE code \in {\hE8, \hCA} -> register_x
      [] code \in {\hC8, \h88} -> register_y
      [] OTHER -> ram[\h0010]

\* the same byte after the iteration
CountedAfter(code) ==
    CASE code \in {\hE8, \hCA} -> register_x'
      [] code \in {\hC8, \h88} -> register_y'
      [] OTHER -> ram'[\h0010]

\* the increments add 1 and the decrements subtract 1, modulo 256
CountsByOne(code) ==
    CountedAfter(code) =
        IF code \in {\hE8, \hC8, \hE6}
          THEN (Counted(code) + 1) % 256
          ELSE (Counted(code) + 255) % 256

\* ZERO and NEGATIVE follow the new byte and the six other flags stay
OnlyZeroAndNegChange(code) ==
    /\ Bit(status', 1) = (CountedAfter(code) = 0)
    /\ Bit(status', 7) = (CountedAfter(code) >= 128)
    /\ \A k \in {0, 2, 3, 4, 5, 6} : Bit(status', k) = Bit(status, k)

\* C31: INC, INX and INY add 1 and DEC, DEX and DEY subtract 1 with 8-bit
\* wraparound (0xFF + 1 = 0x00, 0x00 - 1 = 0xFF); none of them fails and none
\* changes a flag other than ZERO and NEGATIVE.
C31_IncDecWrap ==
    [][(phase = "running" /\ steps' = steps + 1 /\ FetchedCode \in CountCodes)
        => /\ fault' = "none"
           /\ CountsByOne(FetchedCode)
           /\ OnlyZeroAndNegChange(FetchedCode)]_vars

\* DEX has taken register_x from 0x00 to 0xFF (the accumulator still holds the
\* old value): NEGATIVE is set and ZERO clear
C31_Witness ==
    /\ fault = "none" /\ last.op = "step" /\ last.data = \hCA
    /\ accumulator = \h00 /\ register_x = \hFF
    /\ Bit(status, 7) /\ ~Bit(status, 1)

\* C32: every NOP-class opcode (NOP and its one-byte aliases, the two-byte
\* DOP and the three-byte TOP aliases) leaves accumulator, X, Y, stack_ptr,
\* status and all memory as they are and advances program_counter by the
\* opcode's table length.
C32_NopsDoNothing ==
    [][(phase = "running" /\ steps' = steps + 1
            /\ FetchedCode \in NopCodes \cup DopCodes \cup TopCodes)
        => /\ fault' = "none"
           /\ RegistersAndMemoryStay
           /\ status' = status
           /\ program_counter' =
                 program_counter + OPCODES_MAP[FetchedCode].len]_vars

\* the TOP alias 0x1C (Absolute_X) has run at 0x0200 with the status 0xE7: the
\* counter is at 0x0203 and registers and status are those of the start
C32_Witness ==
    /\ fault = "none" /\ last.op = "step" /\ last.data = \h1C
    /\ program_counter = \h0203
    /\ accumulator = \h5A /\ register_x = \hA5 /\ register_y = \h3C
    /\ status = \hE7 /\ stack_ptr = \h00

\* C33: BCC/BCS test CARRY, BNE/BEQ ZERO, BPL/BMI NEGATIVE and BVC/BVS
\* OVERFLOW; a branch whose condition holds sets program_counter to the
\* address past the offset byte plus the sign-extended offset, modulo 65536,
\* one whose condition does not hold goes on with the next instruction, and
\* neither changes a flag, a register or a memory byte.
C33_Branches ==
    [][(phase = "running" /\ steps' = steps + 1 /\ FetchedCode \in BranchCodes)
        => /\ fault' = "none"
           /\ RegistersAndMemoryStay
           /\ status' = status
           /\ program_counter' =
                 IF BranchTaken(FetchedCode) THEN BranchTarget
                 ELSE (program_counter + 2) % 65536]_vars

\* the address the arm 0x6C assigns to program_counter when the JMP (p) at
\* program_counter is run: the arm sees the counter past the opcode byte
JmpArmTarget ==
    jmp_indirect(SetPC(Cur, (program_counter + 1) % 65536)).program_counter

\* the address the resolver returns for the mode Indirect on the same
\* operand bytes
ResolvedIndirect ==
    get_non_immediate_addr(Cur, "Indirect", (program_counter + 1) % 65536)

\* C34: for every pointer stored in the operand bytes, get_non_immediate_addr
\* with the mode Indirect returns the address the loop's JMP indirect arm
\* jumps to, pointers whose low byte is 0xFF included.
C34_ResolverMatchesJmpArm ==
    (fault = "none" /\ phase = "running" /\ FetchedCode = \h6C)
        => ResolvedIndirect = JmpArmTarget

\* the machine as the arm of the opcode about to run sees it: the counter is
\* past the opcode byte, on the operand
Fetched == SetPC(Cur, (program_counter + 1) % 65536)

\* the machine after the two documented instructions of a fusion, run one
\* after the other on the operand of the fused opcode
InSequence(code) ==
    CASE code = \hC7 -> cmp(dec(Fetched, "ZeroPage"), "ZeroPage", accumulator)
      [] code = \h27 -> and(rol(Fetched, "ZeroPage"), "ZeroPage")
      [] code = \h67 -> adc(ror(Fetched, "ZeroPage"), "ZeroPage")
      [] code = \h07 -> ora(asl(Fetched, "ZeroPage"), "ZeroPage")
      [] code = \h47 -> eor(lsr(Fetched, "ZeroPage"), "ZeroPage")
      [] code = \hE7 -> sbc(inc(Fetched, "ZeroPage"), "ZeroPage")

\* the iteration leaves the memory, the registers and the flags of machine t
SameOutcome(t) ==
    /\ fault' = t.fault
    /\ ram' = t.ram
    /\ accumulator' = t.accumulator
    /\ register_x' = t.register_x
    /\ register_y' = t.register_y
    /\ stack_ptr' = t.stack_ptr
    /\ status' = t.status

\* C35: from every starting state (CARRY already set included) DCP on an
\* address leaves the memory, registers and flags that DEC on the address
\* followed by CMP against it leaves.
C35_DcpIsDecThenCmp ==
    [][(phase = "running" /\ steps' = steps + 1 /\ FetchedCode = \hC7)
        => SameOutcome(InSequence(\hC7))]_vars

C37_ArrFlags ==
    (fault = "none" /\ last.op = "step" /\ last.data = \h6B)
        => /\ Bit(status, 0) = Bit(accumulator, 6)
           /\ Bit(status, 6) = (Bit(accumulator, 6) # Bit(accumulator, 5))

\* C38: after AAC (0x0B, 0x2B) the accumulator is the old accumulator AND the
\* operand, ZERO and NEGATIVE reflect that value and CARRY equals NEGATIVE.
C38_AacAndsAndCopiesCarry ==
    [][(phase = "running" /\ steps' = steps + 1
            /\ FetchedCode \in {\h0B, \h2B})
        => /\ fault' = "none"
           /\ accumulator' =
                 BitAnd(accumulator, ByteAt(program_counter + 1))
           /\ Bit(status', 1) = (accumulator' = 0)
           /\ Bit(status', 7) = (accumulator' >= 128)
           /\ Bit(status', 0) = Bit(status', 7)]_vars

\* the loop is about to fetch an opcode
AtFetch == fault = "none" /\ phase = "running"

BreakSetOnlyByHalt ==
    (Bit(status', 4) /\ ~Bit(status, 4))
        => (AtFetch /\ FetchedCode = \h00 /\ phase' = "idle")

-----------------------------------------------------------------------------
(* The stack page. *)

StackPage == \h0100..\h01FF

\* every write made so far was to the stack page
WritesInStackPage == \A i \in 1..Len(log) : log[i][1] \in StackPage

\* the internal RAM changes at most in the two stack-page cells at and below
\* the pointer: no cell outside the stack page changes
OutsideStackPageStays ==
    /\ {StackCell(0), StackCell(-1)} \subseteq StackPage
    /\ ram' = [ram EXCEPT ![StackCell(0)] = ram'[StackCell(0)],
                          ![StackCell(-1)] = ram'[StackCell(-1)]]

\* a push writes at the cell the pointer names and moves the pointer down,
\* modulo 256
PushInPage ==
    /\ (last'.op = "push_stack") =>
          /\ log' = Append(log, <<StackCell(0), last'.data>>)
          /\ stack_ptr' = (stack_ptr + 255) % 256
    /\ (last'.op = "push_stack_u16") =>
          /\ log' = log \o <<<<StackCell(0), last'.data \div 256>>,
                             <<StackCell(-1), last'.data % 256>>>>
          /\ stack_ptr' = (stack_ptr + 254) % 256

\* a pull moves the pointer up, modulo 256, reads the cell the new pointer
\* names and writes nothing
PullInPage ==
    /\ (last'.op = "pull_stack") =>
          /\ last'.data = ram[StackCell(1) % 2048]
          /\ stack_ptr' = (stack_ptr + 1) % 256
          /\ log' = log /\ ram' = ram
    /\ (last'.op = "pull_stack_u16") =>
          /\ last'.data = ram[StackCell(1) % 2048]
                            + 256 * ram[StackCell(2) % 2048]
          /\ stack_ptr' = (stack_ptr + 2) % 256
          /\ log' = log /\ ram' = ram

\* C40: every access of a push or a pull is to 0x0100..0x01FF at every
\* stack_ptr value: the pointer wraps modulo 256 (0x00 down to 0xFF, 0xFF up
\* to 0x00) without a panic and no cell of page 0 or page 2 is touched
C40_StackStaysInPageOne ==
    [][/\ fault' = "none"
       /\ PushInPage /\ PullInPage
       /\ WritesInStackPage'
       /\ OutsideStackPageStays]_vars

\* 0x80 pushed at stack_ptr 0x00 (pointer to 0xFF) and pulled back at 0xFF
\* (pointer to 0x00): the one write went to 0x0100, pages 0 and 2 keep their
\* filling
C40_Witness ==
    /\ last = Op("pull_stack", \h00, \h80)
    /\ stack_ptr = \h00 /\ fault = "none"
    /\ log = <<<<\h0100, \h80>>>>
    /\ ram[\h0100] = \h80 /\ ram[\h0000] = \h55 /\ ram[\h00FF] = \h55
    /\ ram[\h0200] = \h55

=============================================================================
